---- MODULE Spec2Model ----
(***************************************************************************)
(* A model of the PDF form filler: the external fill client                *)
(* (datalabService.js: checkFillStatus, downloadFilledPDF,                 *)
(* pollAndDownloadPDF), the document content extractor (pdfParser.js:      *)
(* extractPDFData, extractFormFields, extractWithPdf2Json,                  *)
(* parseFieldsFromText, extractWithOCR, parsePDF) and the request layer    *)
(* (routes/formFilling.js: the multer storage, /upload and /fill-form).     *)
(*                                                                         *)
(* Text is a sequence of one-character strings.  A JavaScript value that   *)
(* is undefined is NoVal (scalars) or Undefined (texts).                   *)
(*                                                                         *)
(* Three specifications share the variables: PollSpec (one call of         *)
(* pollAndDownloadPDF), ExtractSpec (one call of parsePDF) and RouteSpec   *)
(* (concurrent /upload and /fill-form requests).  Each leaves the other    *)
(* parts' variables at their initial values.                               *)
(***************************************************************************)
EXTENDS Integers, Sequences, FiniteSets, TLC

\* ------------------------------------------------------------------------
\* Bounds of the model
\* ------------------------------------------------------------------------
\* pollAndDownloadPDF is explored for every maxAttempts in 0..MaxAttemptsBound.
MaxAttemptsBound == 3
\* A document has at most MaxFormFields form fields, ...
MaxFormFields == 2
\* ... at most MaxFragments text fragments ...
MaxFragments == 7
\* ... and at most MaxLines lines of flattened text.
MaxLines == 6
\* Date.now() takes the values 0..MaxClock while the requests are served.
MaxClock == 2
\* Math.round(Math.random() * 1E9) takes the values 0..RandBound.
RandBound == 1
\* A CSV data file has at most MaxRows rows.
MaxRows == 2
\* A row given to the converter has at most MaxRowKeys columns.
MaxRowKeys == 2

\* Largest number of lines of a text given to parseText.
MaxTextLines == 4
\* A CSV file given to parseCSV has at most MaxCsvLines lines after its header.
MaxCsvLines == 3

\* ------------------------------------------------------------------------
\* JavaScript values
\* ------------------------------------------------------------------------
NoVal == "undefined"
Undefined == <<"undefined">>
EmptyText == <<>>

\* JavaScript truthiness of a string-or-undefined scalar.
Truthy(v) == v # NoVal /\ v # ""

\* JavaScript truthiness of a text-or-undefined value.
TruthyText(t) == t # Undefined /\ t # EmptyText

\* a || b on scalars.
OrElse(a, b) == IF Truthy(a) THEN a ELSE b

\* ------------------------------------------------------------------------
\* Buffer.from(text, 'base64') and its inverse
\* ------------------------------------------------------------------------
B64Alphabet ==
  <<"A","B","C","D","E","F","G","H","I","J","K","L","M","N","O","P",
    "Q","R","S","T","U","V","W","X","Y","Z","a","b","c","d","e","f",
    "g","h","i","j","k","l","m","n","o","p","q","r","s","t","u","v",
    "w","x","y","z","0","1","2","3","4","5","6","7","8","9","+","/">>

\* The six-bit value of a base64 character.
B64Index(c) == (CHOOSE i \in 1..64 : B64Alphabet[i] = c) - 1

\* The characters before the first padding character.
RECURSIVE B64Body(_)
B64Body(t) ==
  IF t = <<>> \/ Head(t) = "=" THEN <<>>
  ELSE <<Head(t)>> \o B64Body(Tail(t))

\* Bytes of a run of six-bit values: four give three bytes, a rest of three
\* gives two, a rest of two gives one, a rest of one gives none.
RECURSIVE B64Bytes(_)
B64Bytes(s) ==
  IF Len(s) >= 4 THEN
    LET n == ((s[1] * 64 + s[2]) * 64 + s[3]) * 64 + s[4]
    IN  <<n \div 65536, (n \div 256) % 256, n % 256>>
          \o B64Bytes(SubSeq(s, 5, Len(s)))
  ELSE IF Len(s) = 3 THEN
    LET n == (s[1] * 64 + s[2]) * 64 + s[3]
    IN  <<n \div 1024, (n \div 4) % 256>>
  ELSE IF Len(s) = 2 THEN
    <<(s[1] * 64 + s[2]) \div 16>>
  ELSE <<>>

\* Buffer.from(base64Data, 'base64')
Base64Decode(t) ==
  LET body == B64Body(t)
  IN  B64Bytes([i \in 1..Len(body) |-> B64Index(body[i])])

\* buffer.toString('base64'): the canonical padded encoding of bytes.
RECURSIVE Base64Encode(_)
Base64Encode(b) ==
  IF Len(b) >= 3 THEN
    LET n == (b[1] * 256 + b[2]) * 256 + b[3]
    IN  <<B64Alphabet[(n \div 262144) + 1], B64Alphabet[((n \div 4096) % 64) + 1],
          B64Alphabet[((n \div 64) % 64) + 1], B64Alphabet[(n % 64) + 1]>>
          \o Base64Encode(SubSeq(b, 4, Len(b)))
  ELSE IF Len(b) = 2 THEN
    LET n == (b[1] * 256 + b[2]) * 4
    IN  <<B64Alphabet[(n \div 4096) + 1], B64Alphabet[((n \div 64) % 64) + 1],
          B64Alphabet[(n % 64) + 1], "=">>
  ELSE IF Len(b) = 1 THEN
    LET n == b[1] * 16
    IN  <<B64Alphabet[(n \div 64) + 1], B64Alphabet[(n % 64) + 1], "=", "=">>
  ELSE <<>>


\* ------------------------------------------------------------------------
\* Text: String.prototype.trim, split, character classes of the regexes
\* ------------------------------------------------------------------------
UpperChars ==
  {"A","B","C","D","E","F","G","H","I","J","K","L","M","N","O","P","Q","R",
   "S","T","U","V","W","X","Y","Z"}
LowerChars ==
  {"a","b","c","d","e","f","g","h","i","j","k","l","m","n","o","p","q","r",
   "s","t","u","v","w","x","y","z"}
DigitChars == {"0","1","2","3","4","5","6","7","8","9"}

\* \s
IsSpace(c) == c \in {" ", "\t", "\n", "\r"}

\* \w
IsWordChar(c) == c \in UpperChars \cup LowerChars \cup DigitChars \cup {"_"}

\* The text without its leading white space.
RECURSIVE TrimStart(_)
TrimStart(t) ==
  IF t # <<>> /\ IsSpace(Head(t)) THEN TrimStart(Tail(t)) ELSE t

\* The text without its trailing white space.
RECURSIVE TrimEnd(_)
TrimEnd(t) ==
  IF t # <<>> /\ IsSpace(t[Len(t)]) THEN TrimEnd(SubSeq(t, 1, Len(t) - 1)) ELSE t

\* String.prototype.trim
Trim(t) == TrimEnd(TrimStart(t))

\* text.split(sep) for a one-character separator.
RECURSIVE SplitAt(_, _, _)
SplitAt(t, sep, cur) ==
  IF t = <<>> THEN <<cur>>
  ELSE IF Head(t) = sep THEN <<cur>> \o SplitAt(Tail(t), sep, <<>>)
  ELSE SplitAt(Tail(t), sep, Append(cur, Head(t)))

Split(t, sep) == SplitAt(t, sep, <<>>)

\* parts.join(sep)
RECURSIVE Join(_, _)
Join(parts, sep) ==
  IF parts = <<>> THEN <<>>
  ELSE IF Len(parts) = 1 THEN parts[1]
  ELSE parts[1] \o sep \o Join(Tail(parts), sep)

\* parts.filter(p => p): the non-empty texts, in order.
RECURSIVE SelectNonEmpty(_)
SelectNonEmpty(parts) ==
  IF parts = <<>> THEN <<>>
  ELSE IF Head(parts) # <<>> THEN <<Head(parts)>> \o SelectNonEmpty(Tail(parts))
  ELSE SelectNonEmpty(Tail(parts))

\* ------------------------------------------------------------------------
\* A JavaScript object with text keys: its entries in own-property order,
\* which is the array-index keys in ascending numeric order followed by the
\* other keys in insertion order.
\* ------------------------------------------------------------------------
EmptyObject == <<>>

\* A key that is a canonical array index: decimal digits, no leading zero.
IsArrayIndex(key) ==
  /\ key # <<>>
  /\ \A i \in 1..Len(key) : key[i] \in DigitChars
  /\ Len(key) = 1 \/ key[1] # "0"

\* The number an array-index key denotes.
RECURSIVE IndexValue(_)
IndexValue(key) ==
  IF key = <<>> THEN 0
  ELSE 10 * IndexValue(SubSeq(key, 1, Len(key) - 1))
       + (CHOOSE n \in 0..9 :
            <<"0","1","2","3","4","5","6","7","8","9">>[n + 1] = key[Len(key)])

\* Where a new array-index key goes: after the smaller array-index keys.
IndexSlot(o, key) ==
  1 + Cardinality({i \in 1..Len(o) :
                     IsArrayIndex(o[i].k) /\ IndexValue(o[i].k) < IndexValue(key)})

\* Object.keys(o)
Keys(o) == [i \in 1..Len(o) |-> o[i].k]

HasKey(o, key) == \E i \in 1..Len(o) : o[i].k = key

\* o[key] for a key of o
Get(o, key) == o[CHOOSE i \in 1..Len(o) : o[i].k = key].v

\* Every new key goes last.
PutInsertionOrder(o, key, value) ==
  IF HasKey(o, key)
  THEN [i \in 1..Len(o) |-> IF o[i].k = key THEN [k |-> key, v |-> value] ELSE o[i]]
  ELSE Append(o, [k |-> key, v |-> value])

\* o[key] = value: a known key keeps its place, a new array-index key goes
\* to its numeric place, any other new key goes last.
Put(o, key, value) ==
  IF HasKey(o, key)
  THEN [i \in 1..Len(o) |-> IF o[i].k = key THEN [k |-> key, v |-> value] ELSE o[i]]
  ELSE IF IsArrayIndex(key)
  THEN LET p == IndexSlot(o, key)
       IN  SubSeq(o, 1, p - 1) \o <<[k |-> key, v |-> value]>> \o SubSeq(o, p, Len(o))
  ELSE Append(o, [k |-> key, v |-> value])

\* Object.keys(o).length
FieldCount(o) == Len(o)

\* ========================================================================
\* Document Content Extractor: the extraction methods (pdfParser.js)
\* ========================================================================

\* ---- Method 1: extractFormFields ----

\* The value read from one form field, by the class of its control.
FormFieldValue(f) ==
  CASE f.kind = "PDFTextField" -> IF TruthyText(f.text) THEN f.text ELSE EmptyText
    [] f.kind = "PDFCheckBox" -> IF f.checked THEN <<"Y","e","s">> ELSE <<"N","o">>
    [] f.kind = "PDFRadioGroup" -> IF TruthyText(f.text) THEN f.text ELSE EmptyText
    [] f.kind = "PDFDropdown" -> Join(f.selected, <<",", " ">>)
    [] OTHER -> EmptyText

\* if (fieldValue && fieldValue.trim() !== '')
KeepFieldValue(v) == TruthyText(v) /\ Trim(v) # EmptyText

\* Variant: a field that cannot be read aborts the loop and nothing is
\* returned.
RECURSIVE ReadFormFieldsAbort(_, _)
ReadFormFieldsAbort(fields, extractedFields) ==
  IF fields = <<>> THEN extractedFields
  ELSE
    LET field == Head(fields)
        fieldValue == FormFieldValue(field)
    IN  IF field.throws THEN EmptyObject
        ELSE IF KeepFieldValue(fieldValue)
        THEN ReadFormFieldsAbort(Tail(fields),
               Put(extractedFields, field.name, Trim(fieldValue)))
        ELSE ReadFormFieldsAbort(Tail(fields), extractedFields)

\* for (const field of fields) { try { ... } catch (err) { ... } }
RECURSIVE ReadFormFields(_, _)
ReadFormFields(fields, extractedFields) ==
  IF fields = <<>> THEN extractedFields
  ELSE
    LET field == Head(fields)
        fieldValue == FormFieldValue(field)
    IN  IF field.throws THEN ReadFormFields(Tail(fields), extractedFields)
        ELSE IF KeepFieldValue(fieldValue)
        THEN ReadFormFields(Tail(fields),
               Put(extractedFields, field.name, Trim(fieldValue)))
        ELSE ReadFormFields(Tail(fields), extractedFields)

\* extractFormFields(pdfPath): {} when the document cannot be loaded.
extractFormFields(form) ==
  IF ~form.loadOk THEN EmptyObject
  ELSE ReadFormFields(form.fields, EmptyObject)

\* ---- Method 2: extractWithPdf2Json ----

\* decodeURIComponent on the escapes pdf2json writes for ':', ' ' and '%';
\* ok is FALSE where it throws URIError.
RECURSIVE DecodeURIComponent(_)
DecodeURIComponent(t) ==
  IF t = <<>> THEN [ok |-> TRUE, text |-> <<>>]
  ELSE IF Head(t) # "%" THEN
    LET rest == DecodeURIComponent(Tail(t))
    IN  [ok |-> rest.ok, text |-> <<Head(t)>> \o rest.text]
  ELSE IF Len(t) < 3 THEN [ok |-> FALSE, text |-> <<>>]
  ELSE
    LET code == <<t[2], t[3]>>
        rest == DecodeURIComponent(SubSeq(t, 4, Len(t)))
        ch == CASE code = <<"3","A">> -> ":"
                [] code = <<"2","0">> -> " "
                [] code = <<"2","5">> -> "%"
                [] OTHER -> ""
    IN  IF ch = "" THEN [ok |-> FALSE, text |-> <<>>]
        ELSE [ok |-> rest.ok, text |-> <<ch>> \o rest.text]

\* text.replace(':', ''): the text without its first colon.
RECURSIVE RemoveFirstColon(_)
RemoveFirstColon(t) ==
  IF t = <<>> THEN <<>>
  ELSE IF Head(t) = ":" THEN Tail(t)
  ELSE <<Head(t)>> \o RemoveFirstColon(Tail(t))

\* currentText.trim().endsWith(':')
EndsWithColon(t) == Trim(t) # <<>> /\ Trim(t)[Len(Trim(t))] = ":"

\* The loop over one page's texts from index i on; ok is FALSE once a
\* text cannot be decoded.
RECURSIVE PairTexts(_, _, _)
PairTexts(texts, i, acc) ==
  IF ~acc.ok \/ i > Len(texts) - 1 THEN acc
  ELSE
    LET cur == DecodeURIComponent(texts[i])
        nxt == DecodeURIComponent(texts[i + 1])
        currentText == cur.text
        nextText == nxt.text
    IN  IF ~cur.ok \/ ~nxt.ok THEN [ok |-> FALSE, fields |-> EmptyObject]
        ELSE IF EndsWithColon(currentText) /\ Len(Trim(nextText)) > 0
        THEN PairTexts(texts, i + 1,
               [ok |-> TRUE,
                fields |-> Put(acc.fields, Trim(RemoveFirstColon(currentText)),
                               Trim(nextText))])
        ELSE IF Len(Trim(currentText)) > 2 /\ Len(Trim(nextText)) > 0
        THEN PairTexts(texts, i + 1,
               [ok |-> TRUE,
                fields |-> Put(acc.fields, Trim(currentText), Trim(nextText))])
        ELSE PairTexts(texts, i + 1, acc)

\* for (const page of pages)
RECURSIVE PairPages(_, _)
PairPages(pages, acc) ==
  IF pages = <<>> \/ ~acc.ok THEN acc
  ELSE PairPages(Tail(pages), PairTexts(Head(pages), 1, acc))

\* extractWithPdf2Json(pdfPath): {} on pdfParser_dataError and when the
\* pairing throws.
extractWithPdf2Json(json) ==
  IF json.error THEN EmptyObject
  ELSE PairPages(json.pages, [ok |-> TRUE, fields |-> EmptyObject]).fields

\* ---- Method 3: parseFieldsFromText ----

\* What a pattern found in a line.
NoMatch == [m |-> FALSE, key |-> <<>>, value |-> <<>>]
Match(key, value) == [m |-> TRUE, key |-> key, value |-> value]

\* /^(.+?):\s*(.+)$/ on a trimmed line: the first colon that has a
\* character before it and one after it.
FieldColonPattern(line) ==
  LET ps == {p \in 2..(Len(line) - 1) : line[p] = ":"}
  IN  IF ps = {} THEN NoMatch
      ELSE LET p == CHOOSE q \in ps : \A o \in ps : q <= o
           IN  Match(SubSeq(line, 1, p - 1), TrimStart(SubSeq(line, p + 1, Len(line))))

\* /^(.+?)\s{2,}(.+)$/ on a trimmed line: the first run of two or more
\* white-space characters.
FieldSpacesPattern(line) ==
  LET ps == {p \in 1..(Len(line) - 3) : IsSpace(line[p + 1]) /\ IsSpace(line[p + 2])}
  IN  IF ps = {} THEN NoMatch
      ELSE LET p == CHOOSE q \in ps : \A o \in ps : q <= o
           IN  Match(SubSeq(line, 1, p), TrimStart(SubSeq(line, p + 1, Len(line))))

\* /^([A-Z][A-Za-z\s]+)\s+(.+)$/ on a trimmed line: a capital, then
\* letters and white space up to the last white space that still leaves a
\* value.
FieldCapitalPattern(line) ==
  IF line = <<>> \/ Head(line) \notin UpperChars THEN NoMatch
  ELSE
    LET InClass(c) == c \in UpperChars \cup LowerChars \/ IsSpace(c)
        gs == {g \in 2..(Len(line) - 2) :
                 /\ \A i \in 2..g : InClass(line[i])
                 /\ IsSpace(line[g + 1])}
    IN  IF gs = {} THEN NoMatch
        ELSE LET g == CHOOSE q \in gs : \A o \in gs : q >= o
             IN  Match(SubSeq(line, 1, g), TrimStart(SubSeq(line, g + 2, Len(line))))

\* for (const pattern of patterns): the first pattern that matches the line.
FirstFieldPattern(line) ==
  IF FieldColonPattern(line).m THEN FieldColonPattern(line)
  ELSE IF FieldSpacesPattern(line).m THEN FieldSpacesPattern(line)
  ELSE FieldCapitalPattern(line)

\* for (const line of lines)
RECURSIVE ParseFieldLines(_, _)
ParseFieldLines(lines, fields) ==
  IF lines = <<>> THEN fields
  ELSE
    LET match == FirstFieldPattern(Head(lines))
        fieldName == Trim(match.key)
        fieldValue == Trim(match.value)
    IN  IF match.m /\ Len(fieldName) > 1 /\ Len(fieldValue) > 0
        THEN ParseFieldLines(Tail(lines), Put(fields, fieldName, fieldValue))
        ELSE ParseFieldLines(Tail(lines), fields)

\* The data pattern of the fallback,
\* /\b([A-Z][a-z]+(?:\s+[A-Z][a-z]+)*)\s*[:\-]?\s*([A-Z0-9][A-Za-z0-9\s,.-]+)/g
FallbackMaxMatches == 50

\* [A-Za-z0-9\s,.-]
IsValueChar(c) ==
  c \in UpperChars \cup LowerChars \cup DigitChars \cup {",", ".", "-"} \/ IsSpace(c)

\* The first index from i on that holds no white space (Len + 1 if none).
RECURSIVE SkipSpaces(_, _)
SkipSpaces(t, i) ==
  IF i <= Len(t) /\ IsSpace(t[i]) THEN SkipSpaces(t, i + 1) ELSE i

\* The last index of the run of lower-case letters that starts at i
\* (i - 1 if there is none).
RECURSIVE LowerRunEnd(_, _)
LowerRunEnd(t, i) ==
  IF i <= Len(t) /\ t[i] \in LowerChars THEN LowerRunEnd(t, i + 1) ELSE i - 1

\* The last index of the run of value characters that starts at i.
RECURSIVE ValueRunEnd(_, _)
ValueRunEnd(t, i) ==
  IF i <= Len(t) /\ IsValueChar(t[i]) THEN ValueRunEnd(t, i + 1) ELSE i - 1

\* The end of a word [A-Z][a-z]+ that starts at s, 0 if none does.
WordEnd(t, s) ==
  IF s + 1 <= Len(t) /\ t[s] \in UpperChars /\ t[s + 1] \in LowerChars
  THEN LowerRunEnd(t, s + 1) ELSE 0

\* The ends of the keys [A-Z][a-z]+(?:\s+[A-Z][a-z]+)* that start at s,
\* shortest first; e is the end of the first word.
RECURSIVE KeyEnds(_, _)
KeyEnds(t, e) ==
  LET j == SkipSpaces(t, e + 1)
  IN  IF j > e + 1 /\ WordEnd(t, j) # 0
      THEN <<e>> \o KeyEnds(t, WordEnd(t, j))
      ELSE <<e>>

\* \s*[:\-]?\s*([A-Z0-9][A-Za-z0-9\s,.-]+) after a key that ends at e.
ValueAfter(t, e) ==
  LET i == SkipSpaces(t, e + 1)
      j == IF i <= Len(t) /\ t[i] \in {":", "-"} THEN i + 1 ELSE i
      h == SkipSpaces(t, j)
  IN  IF /\ h + 1 <= Len(t)
         /\ t[h] \in UpperChars \cup DigitChars
         /\ IsValueChar(t[h + 1])
      THEN [m |-> TRUE, from |-> h, to |-> ValueRunEnd(t, h + 1)]
      ELSE [m |-> FALSE, from |-> 0, to |-> 0]

\* The match of the data pattern that starts at s: the longest key that
\* is followed by a value.
DataMatchAt(t, s) ==
  IF \/ WordEnd(t, s) = 0
     \/ (s > 1 /\ IsWordChar(t[s - 1]))
  THEN [m |-> FALSE, key |-> <<>>, value |-> <<>>, to |-> 0]
  ELSE
    LET ends == KeyEnds(t, WordEnd(t, s))
        good == {n \in 1..Len(ends) : ValueAfter(t, ends[n]).m}
    IN  IF good = {} THEN [m |-> FALSE, key |-> <<>>, value |-> <<>>, to |-> 0]
        ELSE LET n == CHOOSE q \in good : \A o \in good : q >= o
                 val == ValueAfter(t, ends[n])
             IN  [m |-> TRUE, key |-> SubSeq(t, s, ends[n]),
                  value |-> SubSeq(t, val.from, val.to), to |-> val.to]

\* while ((match = dataPattern.exec(text)) !== null && index < 50)
RECURSIVE ScanDataPattern(_, _, _, _)
ScanDataPattern(t, from, fields, index) ==
  LET starts == {s \in from..Len(t) : DataMatchAt(t, s).m}
  IN  IF starts = {} \/ index >= FallbackMaxMatches THEN fields
      ELSE
        LET s == CHOOSE q \in starts : \A o \in starts : q <= o
            match == DataMatchAt(t, s)
            key == Trim(match.key)
            value == Trim(match.value)
        IN  IF key # <<>> /\ value # <<>> /\ ~HasKey(fields, key)
            THEN ScanDataPattern(t, match.to + 1, Put(fields, key, value), index + 1)
            ELSE ScanDataPattern(t, match.to + 1, fields, index)

\* text.split('\n').map(line => line.trim()).filter(line => line.length > 0)
TrimmedLines(text) ==
  LET raw == Split(text, "\n")
  IN  SelectNonEmpty([i \in 1..Len(raw) |-> Trim(raw[i])])

\* parseFieldsFromText(text)
parseFieldsFromText(text) ==
  LET fields == ParseFieldLines(TrimmedLines(text), EmptyObject)
  IN  IF FieldCount(fields) = 0
      THEN ScanDataPattern(text, 1, EmptyObject, 0)
      ELSE fields

\* ---- Method 4: extractWithOCR, the fields of a completed read ----

\* One entry of the detected fields: fields[field.name] = field.value when
\* both are set, else every text property of the entry under its own name.
PutDetected(fields, field) ==
  IF TruthyText(field.name) /\ TruthyText(field.value)
  THEN Put(fields, field.name, field.value)
  ELSE
    LET withName == IF TruthyText(field.name)
                    THEN Put(fields, <<"n","a","m","e">>, field.name) ELSE fields
    IN  IF TruthyText(field.value)
        THEN Put(withName, <<"v","a","l","u","e">>, field.value) ELSE withName

\* detectedFields.forEach(field => ...)
RECURSIVE DetectedToFields(_, _)
DetectedToFields(detected, fields) ==
  IF detected = <<>> THEN fields
  ELSE DetectedToFields(Tail(detected), PutDetected(fields, Head(detected)))

\* The ways extractWithOCR ends once it has a key: the submission fails,
\* a status request fails, the job fails, the 60 polls run out, or the job
\* completes with detected fields.
OcrDetected ==
  {<<>>,
   <<[name |-> <<"N","a","m","e">>, value |-> <<"A","n","n">>]>>,
   <<[name |-> <<"N","a","m","e">>, value |-> Undefined]>>,
   <<[name |-> Undefined, value |-> Undefined]>>}

OcrEndings ==
  [kind : {"submit-error", "status-error", "failed", "timeout"}, detected : {<<>>}]
    \cup [kind : {"complete"}, detected : OcrDetected]

\* What extractWithOCR returns for an ending.
OcrResult(ending) ==
  IF ending.kind = "complete"
  THEN DetectedToFields(ending.detected, EmptyObject)
  ELSE EmptyObject

\* ---- convertExtractedDataToRows ----

\* for (const [key, value] of Object.entries(extractedFields)) row[key] = value
RECURSIVE CopyRow(_, _)
CopyRow(entries, row) ==
  IF entries = <<>> THEN row
  ELSE CopyRow(Tail(entries), Put(row, Head(entries).k, Head(entries).v))

convertExtractedDataToRows(extractedFields) ==
  LET row == CopyRow(extractedFields, EmptyObject)
  IN  [headers |-> Keys(row), rows |-> <<row>>, rowCount |-> 1]

\* ---- The documents parsePDF is explored on ----

Letters == <<"a","b","c","d","e","f","g","h","i","j","k","l","m","n","o","p">>
Digits == <<"1","2","3","4","5","6","7","8","9","0">>
Letter(i) == Letters[((i - 1) % 16) + 1]
Digit(i) == Digits[((i - 1) % 10) + 1]

FormField(name, kind, text, checked, selected, throws) ==
  [name |-> name, kind |-> kind, text |-> text, checked |-> checked,
   selected |-> selected, throws |-> throws]

\* Form fields of every control class: unset, blank, unreadable and set.
FormStream ==
  << FormField(<<"E","m","p","t","y">>, "PDFTextField", Undefined, FALSE, <<>>, FALSE),
     FormField(<<"B","l","a","n","k">>, "PDFTextField", <<" "," ">>, FALSE, <<>>, FALSE),
     FormField(<<"S","i","g">>, "PDFSignature", Undefined, FALSE, <<>>, FALSE),
     FormField(<<"L","a","n","g">>, "PDFDropdown", Undefined, FALSE, <<>>, FALSE),
     FormField(<<"B","a","d">>, "PDFTextField", <<"x">>, FALSE, <<>>, TRUE),
     FormField(<<"N","a","m","e">>, "PDFTextField", <<" ","A","n","n"," ">>, FALSE, <<>>, FALSE),
     FormField(<<"A","g","r","e","e">>, "PDFCheckBox", Undefined, FALSE, <<>>, FALSE),
     FormField(<<"N","a","m","e">>, "PDFRadioGroup", <<"B","o","b">>, FALSE, <<>>, FALSE),
     FormField(<<"L","a","n","g">>, "PDFDropdown", Undefined, FALSE,
               << <<"e","n">>, <<"f","r">> >>, FALSE) >>

\* What pdf-lib reads: a document that does not load, or up to
\* MaxFormFields consecutive fields of the stream.
FormInputs ==
  {[loadOk |-> FALSE, fields |-> <<>>]}
    \cup {[loadOk |-> TRUE, fields |-> SubSeq(FormStream, w[1], w[1] + w[2] - 1)] :
            w \in {v \in (1..Len(FormStream)) \X (0..MaxFormFields) :
                     v[1] + v[2] - 1 <= Len(FormStream)}}

\* The i-th text fragment of a page in each style, as pdf2json escapes it.
Fragment(style, i) ==
  CASE style = "labelled" ->
         IF i % 2 = 1 THEN <<"L", Letter(i), "%", "3", "A">>
         ELSE <<"v", Digit(i)>>
    [] style = "words" -> <<"w", "r", "d", Letter(i)>>
    [] style = "short" -> <<"x", Digit(i)>>
    [] OTHER -> IF i % 3 = 0 THEN <<"b", "a", "d", "%">> ELSE <<"w", "r", "d", Letter(i)>>

FragmentStyles == {"labelled", "words", "short", "malformed"}
FragmentCounts == {0} \cup ((MaxFragments - 2)..MaxFragments)

\* The fragments split over pages of perPage fragments each.
RECURSIVE Paginate(_, _)
Paginate(texts, perPage) ==
  IF Len(texts) <= perPage THEN <<texts>>
  ELSE <<SubSeq(texts, 1, perPage)>>
         \o Paginate(SubSeq(texts, perPage + 1, Len(texts)), perPage)

\* What pdf2json reads: a parser error, or pages of fragments.
JsonInputs ==
  {[error |-> TRUE, pages |-> <<>>]}
    \cup {[error |-> FALSE,
           pages |-> Paginate([i \in 1..n |-> Fragment(style, i)], MaxFragments + 1)] :
            style \in FragmentStyles, n \in FragmentCounts}
    \cup {[error |-> FALSE,
           pages |-> Paginate([i \in 1..n |-> Fragment("words", i)], 4)] :
            n \in FragmentCounts}

\* The i-th line of flattened text in each style.
TextLine(style, i) ==
  CASE style = "colon" ->
         <<"F","i","e","l","d", Letter(i), ":", " ", "v","a","l", Digit(i)>>
    [] style = "short" -> <<"k", Letter(i), ":", Digit(i)>>
    [] style = "spaces" -> <<"K","e","y", Letter(i), " ", " ", "v", Digit(i)>>
    [] style = "capital" -> <<"N","a","m","e", Letter(i), " ", "x", Digit(i)>>
    [] OTHER -> <<"a","b"," ","Z", Letter(i), " ", "1", Digit(i), ";">>

TextStyles == {"colon", "short", "spaces", "capital", "prose"}
LineCounts == {0} \cup ((MaxLines - 2)..(MaxLines + 1))

\* What pdf-parse reads: a failure to read, or the flattened text.
TextInputs ==
  {[readOk |-> FALSE, text |-> <<>>]}
    \cup {[readOk |-> TRUE,
           text |-> Join([i \in 1..n |-> TextLine(style, i)], <<"\n">>)] :
            style \in TextStyles, n \in LineCounts}

Documents == [form : FormInputs, json : JsonInputs, text : TextInputs]

NoDocument ==
  [form |-> [loadOk |-> FALSE, fields |-> <<>>],
   json |-> [error |-> TRUE, pages |-> <<>>],
   text |-> [readOk |-> FALSE, text |-> <<>>]]

\* result before extractPDFData returns.
NoResult == [fields |-> EmptyObject, fieldCount |-> -1, method |-> "pending"]

\* parsed before parsePDF ends.
NotParsed ==
  [state |-> "running", data |-> convertExtractedDataToRows(EmptyObject),
   extractedFieldCount |-> -1, method |-> "pending"]

\* ========================================================================
\* State
\* ========================================================================
VARIABLES
  \* -- pollAndDownloadPDF (datalabService.js) --
  maxAttempts,   \* the maxAttempts argument
  attempts,      \* let attempts
  pc,            \* where the call is: "idle", "poll", "sleep", "done"
  status,        \* const status: the last response of checkFillStatus
  outcome,       \* how the call ended: "success" or the error thrown
  outFile,       \* the bytes at outputPath, NoFile while there is no file
  fetched,       \* the URL downloadFilledPDF requested, NoVal if none
  polls,         \* number of checkFillStatus calls made
  terminalAt,    \* number of the first poll answered with a terminal status, 0 if none
  \* -- parsePDF / extractPDFData (pdfParser.js) --
  doc,           \* the document at pdfPath: what each library reads from it
  apiKey,        \* the apiKey argument of parsePDF
  epc,           \* where the call is: "idle", "form", "pdf2json", "text", "ocr", "done"
  formFields,    \* const formFields = await extractFormFields(pdfPath)
  structuredData, \* const structuredData = await extractWithPdf2Json(pdfPath)
  textFields,    \* const fields = parseFieldsFromText(pdfData.text)
  ocrFields,     \* const ocrFields = await extractWithOCR(pdfPath, apiKey)
  result,        \* const result = await extractPDFData(pdfPath)
  ran,           \* the extraction methods started so far, in order
  parsed,        \* what parsePDF returned or threw
  \* -- the request layer (routes/formFilling.js) --
  now,           \* Date.now()
  envKey,        \* process.env.DATALAB_API_KEY
  req,           \* the requests: what each handler holds and where it is
  written,       \* the file paths each request has written
  submits,       \* the requests that called the remote fill API
  pollers,       \* the requests that called pollAndDownloadPDF
  \* -- convertRowToFieldData and the mapping generators --
  row,           \* the row argument of convertRowToFieldData
  columnMappings, \* its columnMappings argument
  fieldData,     \* what convertRowToFieldData returned
  mappings,      \* what generateFieldMappings returned for the row's headers
  textMappings,  \* what generateTextFieldMappings returned for them
  mapped,        \* which of the three results have been computed
  \* -- parseText --
  inputText,     \* the text argument
  pending,       \* the lines the loop has not reached yet
  lineFields,    \* const fields
  trace,         \* for each line that was not blank: the matchers whose branch ran
  tpc,           \* where the call is: "idle", "lines", "done", "reparsed"
  textResult,    \* what parseText returned
  reparsed,      \* what parseText returned for the canonical text of textResult
  heuristic,     \* what the loop of parseFieldsFromText takes from each line of the text
  \* -- parseCSV --
  csvContent,    \* the content of the file at filePath
  csvReadable,   \* whether fs.readFile gives the content
  cpc,           \* where the call is: "idle", "read", "parse", "done"
  decoded,       \* results, the argument of the complete callback
  csvResult,     \* what the promise was resolved with
  csvError,      \* the message of the error parseCSV threw, "" if none
  \* -- extractWithOCR (pdfParser.js), one call step by step --
  ocrKey,        \* the apiKey argument
  opc,           \* where the call is: "idle", "start", "loop", "poll", "done"
  ocrAttempts,   \* let attempts
  ocrPolls,      \* number of status requests sent
  ocrElapsed,    \* milliseconds spent in the timers of the loop
  ocrStatus,     \* statusResponse.data.status of the last poll
  ocrTerminalAt, \* number of the first poll that reported complete or failed, 0 if none
  fillTerminalAt, \* number of the first poll whose status ends the fill loop, 0 if none
  ocrReturned,   \* what extractWithOCR returned
  \* -- the parse, download and preview handlers (routes/formFilling.js) --
  served,        \* the requests: what each handler holds and what it has sent
  serverUp,      \* whether the server process is running
  \* -- CsvPreview (components/CsvPreview.jsx) and the fill it starts --
  csvData,       \* the csvData prop: headers and rows
  fieldMappings, \* the fieldMappings prop
  selectedRow,   \* const [selectedRow]: <<>> for null, <<index>> else
  shown,         \* the items of 'Field Mappings Preview' on screen
  vpc,           \* where the component is: "idle", "open", "submitted"
  filledFrom,    \* the fieldData /fill-form computes for the submitted row
  \* -- App (App.jsx) --
  step,          \* const [step]
  loading,       \* const [loading]
  error,         \* const [error], NoVal for null
  uploadedFiles, \* const [uploadedFiles]: the fields of the stored files, NoVal for null
  dataType,      \* const [dataType]
  appCsvData,    \* const [csvData]: the source of the parsed data, NoVal for null
  filledPdfFilename, \* const [filledPdfFilename], NoVal for null
  manualTextData, \* sessionStorage 'manualTextData', NoVal when absent
  inflight,      \* the await the running handler stands at: "none", "upload", "parse", "fill"
  inputMode,     \* the inputMode argument of the running handleFilesSelected
  ended          \* how the last handler ended: "none", "ok", "failed"

pollVars == <<maxAttempts, attempts, pc, status, outcome, outFile, fetched,
              polls, terminalAt>>

extractVars == <<doc, apiKey, epc, formFields, structuredData, textFields,
                 ocrFields, result, ran, parsed>>

routeVars == <<now, envKey, req, written, submits, pollers>>

mapVars == <<row, columnMappings, fieldData, mappings, textMappings, mapped>>

textVars == <<inputText, pending, lineFields, trace, tpc, textResult, reparsed,
              heuristic>>

csvVars == <<csvContent, csvReadable, cpc, decoded, csvResult, csvError>>

\* The variables of the parsers and converters of tabular data.
dataVars == <<mapVars, textVars, csvVars>>

ocrVars == <<ocrKey, opc, ocrAttempts, ocrPolls, ocrElapsed, ocrStatus,
             ocrTerminalAt, fillTerminalAt, ocrReturned>>

serveVars == <<served, serverUp>>

\* The variables of the parts that are explored on their own.
previewVars == <<csvData, fieldMappings, selectedRow, shown, vpc, filledFrom>>

appVars == <<step, loading, error, uploadedFiles, dataType, appCsvData,
            filledPdfFilename, manualTextData, inflight, inputMode, ended>>

otherVars == <<ocrVars, serveVars, previewVars, appVars>>

vars == <<pollVars, extractVars, routeVars, dataVars, otherVars>>

\* The variables a call of pollAndDownloadPDF leaves alone.
nonPollVars == <<extractVars, routeVars, dataVars, otherVars>>

\* The variables a call of parsePDF leaves alone.
nonExtractVars == <<pollVars, routeVars, dataVars, otherVars>>

\* The variables the request layer leaves alone.
nonRouteVars == <<pollVars, extractVars, dataVars, otherVars>>

\* The variables the converter and the generators leave alone.
nonMapVars == <<pollVars, extractVars, routeVars, textVars, csvVars, otherVars>>

\* The variables a call of parseText leaves alone.
nonTextVars == <<pollVars, extractVars, routeVars, mapVars, csvVars, otherVars>>

\* The variables a call of parseCSV leaves alone.
nonCsvVars == <<pollVars, extractVars, routeVars, mapVars, textVars, otherVars>>

\* The variables a call of extractWithOCR leaves alone.
nonOcrVars == <<pollVars, extractVars, routeVars, dataVars, serveVars,
                previewVars, appVars>>

\* The variables the parse, download and preview handlers leave alone.
nonServeVars == <<pollVars, extractVars, routeVars, dataVars, ocrVars,
                  previewVars, appVars>>

\* The variables CsvPreview and the fill it starts leave alone.
nonPreviewVars == <<pollVars, extractVars, routeVars, dataVars, ocrVars,
                    serveVars, appVars>>

\* The variables App leaves alone.
nonAppVars == <<pollVars, extractVars, routeVars, dataVars, ocrVars,
                serveVars, previewVars>>

\* Two requests are in flight: the handlers share nothing but the file
\* system, where a clash is a clash of two requests.
Requests == {1, 2}

\* ========================================================================
\* External Fill Client: pollAndDownloadPDF
\* ========================================================================
NoFile == <<-1>>

\* The ways a call of pollAndDownloadPDF ends.
Success == "success"
TimeoutError == "Timeout waiting for form filling to complete"
FillFailedError == "Form filling failed"
NoOutputError == "No output data in completed response"
StatusCheckError == "Status check error"
DownloadError == "Download error"

\* Values of status.status the remote API is modelled to send.
StatusValues ==
  {"complete", "completed", "finished", "failed", "error",
   "pending", "COMPLETE", NoVal}

\* Values of status.output_base64: absent, empty, "Man", "Ma", "M".
Base64Values ==
  {Undefined, EmptyText, <<"T","W","F","u">>, <<"T","W","E","=">>,
   <<"T","Q","=","=">>}

\* Values of status.output_url; the four other URL fields are absent or hold
\* a URL of their own.
OutputUrlValues == {NoVal, "", "https://r/output_url"}

\* The body of a poll response, as far as pollAndDownloadPDF reads it.
Responses ==
  [status : StatusValues,
   output_base64 : Base64Values,
   output_url : OutputUrlValues,
   output_file_url : {NoVal, "https://r/output_file_url"},
   file_url : {NoVal, "https://r/file_url"},
   download_url : {NoVal, "https://r/download_url"},
   url : {NoVal, "https://r/url"}]

\* status before the first poll.
NoResponse ==
  [status |-> "<no poll yet>", output_base64 |-> Undefined, output_url |-> NoVal,
   output_file_url |-> NoVal, file_url |-> NoVal, download_url |-> NoVal,
   url |-> NoVal]

\* The bytes the remote serves under a URL (response.data of axios.get).
UrlBody(u) ==
  CASE u = "https://r/output_url" -> <<1>>
    [] u = "https://r/output_file_url" -> <<2>>
    [] u = "https://r/file_url" -> <<3>>
    [] u = "https://r/download_url" -> <<4>>
    [] OTHER -> <<5>>

\* Variant: the loop test lets one more iteration through.
LoopGuardInclusive(a, m) == a <= m

\* while (attempts < maxAttempts)
LoopGuard(a, m) == a < m

\* Variant: the counter advances by two.
NextAttemptsByTwo(a) == a + 2

\* attempts++
NextAttempts(a) == a + 1

\* Variant: 'finished' is not taken for complete.
IsCompleteNoFinished(s) == s = "complete" \/ s = "completed"

\* status.status === 'complete' || ... === 'completed' || ... === 'finished'
IsComplete(s) == s = "complete" \/ s = "completed" \/ s = "finished"

\* Variant: 'error' is not taken for failed.
IsFailedNoError(s) == s = "failed"

\* status.status === 'failed' || status.status === 'error'
IsFailed(s) == s = "failed" \/ s = "error"

\* status.output_base64 && status.output_base64 !== ''
HasBase64(r) == TruthyText(r.output_base64) /\ r.output_base64 # EmptyText

\* status.output_url || status.output_file_url || status.file_url ||
\* status.download_url || status.url
OutputUrl(r) ==
  OrElse(r.output_url, OrElse(r.output_file_url, OrElse(r.file_url,
    OrElse(r.download_url, r.url))))

\* Variant: a URL is preferred to the inline payload.
ResultSourceUrlFirst(r) ==
  IF Truthy(OutputUrl(r)) THEN "url"
  ELSE IF HasBase64(r) THEN "base64"
  ELSE "none"

\* Where a completed response's result comes from: the inline payload first,
\* then a URL, else nowhere.
ResultSource(r) ==
  IF HasBase64(r) THEN "base64"
  ELSE IF Truthy(OutputUrl(r)) THEN "url"
  ELSE "none"

\* terminalAt after poll number n was answered with status s.
FirstTerminal(s, n) ==
  IF terminalAt = 0 /\ s \in {"complete", "completed", "finished", "failed", "error"}
  THEN n ELSE terminalAt

\* No call of pollAndDownloadPDF.
PollIdle ==
  /\ maxAttempts = 0
  /\ attempts = 0
  /\ pc = "idle"
  /\ status = NoResponse
  /\ outcome = "idle"
  /\ outFile = NoFile
  /\ fetched = NoVal
  /\ polls = 0
  /\ terminalAt = 0

\* No call of parsePDF.
ExtractIdle ==
  /\ doc = NoDocument
  /\ apiKey = NoVal
  /\ epc = "idle"
  /\ formFields = EmptyObject
  /\ structuredData = EmptyObject
  /\ textFields = EmptyObject
  /\ ocrFields = EmptyObject
  /\ result = NoResult
  /\ ran = <<>>
  /\ parsed = NotParsed

\* No request in a slot of the request layer.
NoReply == [status |-> 0, error |-> ""]

NoRequest ==
  [kind |-> "none", rpc |-> "idle", files |-> <<>>, stored |-> {},
   source |-> "none", rowIndex |-> <<>>, rows |-> -1,
   outputPath |-> Undefined, dataType |-> "none", response |-> NoReply]

\* The request layer has received nothing.
RouteIdle ==
  /\ now = 0
  /\ envKey = NoVal
  /\ req = [r \in Requests |-> NoRequest]
  /\ written = [r \in Requests |-> {}]
  /\ submits = {}
  /\ pollers = {}

\* No call of the converter or of a generator.
MapIdle ==
  /\ row = EmptyObject
  /\ columnMappings = EmptyObject
  /\ fieldData = EmptyObject
  /\ mappings = EmptyObject
  /\ textMappings = EmptyObject
  /\ mapped = {}

\* textResult and reparsed while parseText has not returned.
NoTextResult == [headers |-> <<>>, rows |-> <<>>, rowCount |-> -1]

\* heuristic while parseFieldsFromText has not been given the text.
NotCompared == [ran |-> FALSE, lines |-> <<>>]

\* No call of parseText.
TextIdle ==
  /\ inputText = <<>>
  /\ pending = <<>>
  /\ lineFields = EmptyObject
  /\ trace = <<>>
  /\ tpc = "idle"
  /\ textResult = NoTextResult
  /\ reparsed = NoTextResult
  /\ heuristic = NotCompared

\* decoded while Papa.parse has not been called.
NoDecoding == [data |-> <<>>, errors |-> <<>>, fields |-> <<>>]

\* No call of parseCSV.
CsvIdle ==
  /\ csvContent = <<>>
  /\ csvReadable = FALSE
  /\ cpc = "idle"
  /\ decoded = NoDecoding
  /\ csvResult = NoTextResult
  /\ csvError = ""

\* No parser or converter of tabular data is called.
DataIdle == MapIdle /\ TextIdle /\ CsvIdle

\* No call of extractWithOCR on its own.
OcrIdle ==
  /\ ocrKey = NoVal
  /\ opc = "idle"
  /\ ocrAttempts = 0
  /\ ocrPolls = 0
  /\ ocrElapsed = 0
  /\ ocrStatus = "<no poll yet>"
  /\ ocrTerminalAt = 0
  /\ fillTerminalAt = 0
  /\ ocrReturned = EmptyObject

\* None of the parts that are explored on their own is active.
\* No request has reached the parse, download and preview handlers.
NoCall ==
  [op |-> "none", spc |-> "idle", path |-> NoVal, text |-> Undefined,
   failed |-> FALSE, late |-> 0, sent |-> <<>>]

ServeIdle ==
  /\ served = [r \in Requests |-> NoCall]
  /\ serverUp = TRUE

\* CsvPreview is not mounted.
PreviewIdle ==
  /\ csvData = [headers |-> <<>>, rows |-> <<>>]
  /\ fieldMappings = EmptyObject
  /\ selectedRow = <<>>
  /\ shown = <<>>
  /\ vpc = "idle"
  /\ filledFrom = EmptyObject

\* App as useState leaves it at the first render.
AppIdle ==
  /\ step = 1
  /\ loading = FALSE
  /\ error = NoVal
  /\ uploadedFiles = NoVal
  /\ dataType = "csv"
  /\ appCsvData = NoVal
  /\ filledPdfFilename = NoVal
  /\ manualTextData = NoVal
  /\ inflight = "none"
  /\ inputMode = "file"
  /\ ended = "none"

OtherIdle == OcrIdle /\ ServeIdle /\ PreviewIdle /\ AppIdle

\* State after construction of one call: pollAndDownloadPDF(requestId,
\* outputPath, apiKey, maxAttempts) has been entered and `let attempts = 0` run.
PollInit ==
  /\ ExtractIdle
  /\ RouteIdle
  /\ DataIdle
  /\ OtherIdle
  /\ maxAttempts \in 0..MaxAttemptsBound
  /\ attempts = 0
  /\ pc = "poll"
  /\ status = NoResponse
  /\ outcome = "running"
  /\ outFile = NoFile
  /\ fetched = NoVal
  /\ polls = 0
  /\ terminalAt = 0

\* checkFillStatus throws (axios.get rejects): the error leaves the loop.
PollStatusError ==
  /\ pc = "poll"
  /\ LoopGuard(attempts, maxAttempts)
  /\ polls' = polls + 1
  /\ pc' = "done"
  /\ outcome' = StatusCheckError
  /\ UNCHANGED <<maxAttempts, attempts, status, outFile, fetched, terminalAt>>
  /\ UNCHANGED nonPollVars

\* A poll answered with a complete-equivalent status and an inline payload.
PollCompleteBase64(r) ==
  /\ pc = "poll"
  /\ LoopGuard(attempts, maxAttempts)
  /\ IsComplete(r.status)
  /\ ResultSource(r) = "base64"
  /\ polls' = polls + 1
  /\ terminalAt' = FirstTerminal(r.status, polls + 1)
  /\ status' = r
  /\ outFile' = Base64Decode(r.output_base64)
  /\ outcome' = Success
  /\ pc' = "done"
  /\ UNCHANGED <<maxAttempts, attempts, fetched>>
  /\ UNCHANGED nonPollVars

\* A poll answered with a complete-equivalent status and only a URL:
\* downloadFilledPDF fetches it and writes the file, or throws.
PollCompleteUrl(r, ok) ==
  /\ pc = "poll"
  /\ LoopGuard(attempts, maxAttempts)
  /\ IsComplete(r.status)
  /\ ResultSource(r) = "url"
  /\ polls' = polls + 1
  /\ terminalAt' = FirstTerminal(r.status, polls + 1)
  /\ status' = r
  /\ fetched' = OutputUrl(r)
  /\ IF ok
     THEN outFile' = UrlBody(OutputUrl(r)) /\ outcome' = Success
     ELSE outFile' = outFile /\ outcome' = DownloadError
  /\ pc' = "done"
  /\ UNCHANGED <<maxAttempts, attempts>>
  /\ UNCHANGED nonPollVars

\* A poll answered with a complete-equivalent status carrying no output.
PollCompleteNoOutput(r) ==
  /\ pc = "poll"
  /\ LoopGuard(attempts, maxAttempts)
  /\ IsComplete(r.status)
  /\ ResultSource(r) = "none"
  /\ polls' = polls + 1
  /\ terminalAt' = FirstTerminal(r.status, polls + 1)
  /\ status' = r
  /\ outcome' = NoOutputError
  /\ pc' = "done"
  /\ UNCHANGED <<maxAttempts, attempts, outFile, fetched>>
  /\ UNCHANGED nonPollVars

\* A poll answered with a failure-equivalent status.
PollFailed(r) ==
  /\ pc = "poll"
  /\ LoopGuard(attempts, maxAttempts)
  /\ ~IsComplete(r.status)
  /\ IsFailed(r.status)
  /\ polls' = polls + 1
  /\ terminalAt' = FirstTerminal(r.status, polls + 1)
  /\ status' = r
  /\ outcome' = FillFailedError
  /\ pc' = "done"
  /\ UNCHANGED <<maxAttempts, attempts, outFile, fetched>>
  /\ UNCHANGED nonPollVars

\* A poll answered with any other status: fall through to the wait.
PollPending(r) ==
  /\ pc = "poll"
  /\ LoopGuard(attempts, maxAttempts)
  /\ ~IsComplete(r.status)
  /\ ~IsFailed(r.status)
  /\ polls' = polls + 1
  /\ terminalAt' = FirstTerminal(r.status, polls + 1)
  /\ status' = r
  /\ pc' = "sleep"
  /\ UNCHANGED <<maxAttempts, attempts, outcome, outFile, fetched>>
  /\ UNCHANGED nonPollVars

\* await new Promise(resolve => setTimeout(resolve, intervalMs)); attempts++
\* The loop body ends here and its `const status` with it.
Sleep ==
  /\ pc = "sleep"
  /\ attempts' = NextAttempts(attempts)
  /\ status' = NoResponse
  /\ pc' = "poll"
  /\ UNCHANGED <<maxAttempts, outcome, outFile, fetched, polls, terminalAt>>
  /\ UNCHANGED nonPollVars

\* The loop condition fails: throw new Error('Timeout waiting ...')
Timeout ==
  /\ pc = "poll"
  /\ ~LoopGuard(attempts, maxAttempts)
  /\ outcome' = TimeoutError
  /\ pc' = "done"
  /\ UNCHANGED <<maxAttempts, attempts, status, outFile, fetched, polls, terminalAt>>
  /\ UNCHANGED nonPollVars

PollNext ==
  \/ PollStatusError
  \/ \E r \in Responses : PollCompleteBase64(r)
  \/ \E r \in Responses, ok \in BOOLEAN : PollCompleteUrl(r, ok)
  \/ \E r \in Responses : PollCompleteNoOutput(r)
  \/ \E r \in Responses : PollFailed(r)
  \/ \E r \in Responses : PollPending(r)
  \/ Sleep
  \/ Timeout

PollSpec == PollInit /\ [][PollNext]_vars

\* Every step of the call is eventually taken: the remote answers every
\* status request (or the request fails) and every timer fires.
FairPollSpec == PollSpec /\ WF_vars(PollNext)


\* ------------------------------------------------------------------------
\* Properties of pollAndDownloadPDF
\* ------------------------------------------------------------------------
CompleteStatuses == {"complete", "completed", "finished"}
FailureStatuses == {"failed", "error"}

\* The URLs a response carries.
ReturnedUrls(r) ==
  {u \in {r.output_url, r.output_file_url, r.file_url, r.download_url, r.url} :
     u # NoVal /\ u # ""}

\* C1: for every maxAttempts >= 0 and every sequence of poll responses the
\* call ends, it never makes more than maxAttempts status polls, and when
\* every poll was answered and none of the answers was complete- or
\* failure-equivalent it ends with the timeout error.
C1_BoundedPolling ==
  /\ [](polls <= maxAttempts)
  /\ [](pc = "done" /\ terminalAt = 0 /\ outcome # StatusCheckError
          => outcome = TimeoutError)
  /\ <>(pc = "done")

C1_Witness ==
  /\ pc = "done"
  /\ outcome = TimeoutError
  /\ terminalAt = 0
  /\ maxAttempts >= 2
  /\ polls = maxAttempts

C3_Original ==
  pc = "done" /\ terminalAt = 0 => polls = maxAttempts

\* C3, amended: an execution that ends without having received a complete-
\* or failure-equivalent status either ends with the timeout error after
\* exactly maxAttempts polls, or ends at the poll whose status request
\* failed, with the status-check error, after at most maxAttempts polls.
C3_Amended ==
  pc = "done" /\ terminalAt = 0
    => \/ outcome = TimeoutError /\ polls = maxAttempts
       \/ /\ outcome = StatusCheckError
          /\ polls = attempts + 1
          /\ polls <= maxAttempts

C3_Witness ==
  /\ pc = "done"
  /\ terminalAt = 0
  /\ outcome = TimeoutError
  /\ maxAttempts = 3
  /\ polls = 3
  /\ attempts = 3

C5_FailedAndPending ==
  /\ status.status \in FailureStatuses
       => /\ pc = "done"
          /\ outcome = FillFailedError
          /\ outFile = NoFile
          /\ fetched = NoVal
          /\ polls = terminalAt
          /\ polls = attempts + 1
  /\ (status # NoResponse /\ status.status \notin CompleteStatuses \cup FailureStatuses)
       => /\ pc = "sleep"
          /\ outcome = "running"
          /\ terminalAt = 0
  /\ pc = "done" /\ outcome = FillFailedError => status.status \in FailureStatuses

C5_Witness ==
  /\ pc = "done"
  /\ status.status = "error"
  /\ status.output_base64 = <<"T","W","F","u">>
  /\ status.output_url = "https://r/output_url"
  /\ outcome = FillFailedError
  /\ outFile = NoFile
  /\ polls = 2



\* ========================================================================
\* Document Content Extractor: extractPDFData and parsePDF
\* ========================================================================
\* The confidence thresholds and the least text length of method 3.
ConfidentFieldCount == 5
TextMinLength == 50

\* Variant: form fields are held to the threshold of the later methods.
AcceptFormFieldsConfident(n) == n > ConfidentFieldCount

\* if (Object.keys(formFields).length > 0)
AcceptFormFields(n) == n > 0

\* if (Object.keys(structuredData).length > 5), and the same for fields
Confident(n) == n > ConfidentFieldCount

\* if (pdfData.text.length > 50)
SignificantText(text) == Len(text) > TextMinLength

\* Variant: remote OCR is tried whenever there is a key.
OcrWantedWithKey(fieldCount, key) == Truthy(key)

\* if (result.fieldCount === 0 && apiKey)
OcrWanted(fieldCount, key) == fieldCount = 0 /\ Truthy(key)

\* The accepted result of a method.
Accepted(fields, method) ==
  [fields |-> fields, fieldCount |-> FieldCount(fields), method |-> method]

\* The result when every method failed.
NoneResult == [fields |-> EmptyObject, fieldCount |-> 0, method |-> "none"]

\* What parsePDF returns.
Returned(fields, count, method) ==
  [state |-> "returned", data |-> convertExtractedDataToRows(fields),
   extractedFieldCount |-> count, method |-> method]

\* What parsePDF has after extractPDFData returned r: remote OCR when it
\* is wanted, else the return of r converted to rows.
AfterExtract(r) ==
  IF OcrWanted(r.fieldCount, apiKey)
  THEN epc' = "ocr" /\ parsed' = parsed
  ELSE epc' = "done" /\ parsed' = Returned(r.fields, r.fieldCount, r.method)

\* State after construction of one call: parsePDF(pdfPath, apiKey) has
\* been entered, with or without a key.
ExtractInit ==
  /\ PollIdle
  /\ RouteIdle
  /\ DataIdle
  /\ OtherIdle
  /\ doc \in Documents
  /\ apiKey \in {NoVal, "", "key"}
  /\ epc = "form"
  /\ formFields = EmptyObject
  /\ structuredData = EmptyObject
  /\ textFields = EmptyObject
  /\ ocrFields = EmptyObject
  /\ result = NoResult
  /\ ran = <<>>
  /\ parsed = NotParsed

\* Method 1: await extractFormFields(pdfPath); accepted with any field.
ExtractFormFields ==
  /\ epc = "form"
  /\ ran' = Append(ran, "form-fields")
  /\ formFields' = extractFormFields(doc.form)
  /\ IF AcceptFormFields(FieldCount(formFields'))
     THEN /\ result' = Accepted(formFields', "form-fields")
          /\ AfterExtract(result')
     ELSE /\ result' = result
          /\ epc' = "pdf2json"
          /\ parsed' = parsed
  /\ UNCHANGED <<doc, apiKey, structuredData, textFields, ocrFields>>
  /\ UNCHANGED nonExtractVars

\* Method 2: await extractWithPdf2Json(pdfPath); accepted with more than
\* five fields.
ExtractWithPdf2Json ==
  /\ epc = "pdf2json"
  /\ ran' = Append(ran, "pdf2json")
  /\ structuredData' = extractWithPdf2Json(doc.json)
  /\ IF Confident(FieldCount(structuredData'))
     THEN /\ result' = Accepted(structuredData', "pdf2json")
          /\ AfterExtract(result')
     ELSE /\ result' = result
          /\ epc' = "text"
          /\ parsed' = parsed
  /\ UNCHANGED <<doc, apiKey, formFields, textFields, ocrFields>>
  /\ UNCHANGED nonExtractVars

\* Method 3: fs.readFile or pdfParse throws; extractPDFData rethrows it as
\* 'PDF read error' and parsePDF as 'Failed to parse PDF'.
ExtractTextFails ==
  /\ epc = "text"
  /\ ~doc.text.readOk
  /\ ran' = Append(ran, "text-extraction")
  /\ epc' = "done"
  /\ parsed' = [parsed EXCEPT !.state = "Failed to parse PDF: PDF read error"]
  /\ UNCHANGED <<doc, apiKey, formFields, structuredData, textFields, ocrFields,
                 result>>
  /\ UNCHANGED nonExtractVars

\* Method 3: the flattened text is parsed when it is longer than 50
\* characters and accepted with more than five fields; otherwise
\* extractPDFData returns the empty result of method 'none'.
ExtractText ==
  /\ epc = "text"
  /\ doc.text.readOk
  /\ ran' = Append(ran, "text-extraction")
  /\ textFields' = IF SignificantText(doc.text.text)
                   THEN parseFieldsFromText(doc.text.text)
                   ELSE textFields
  /\ result' = IF SignificantText(doc.text.text) /\ Confident(FieldCount(textFields'))
               THEN Accepted(textFields', "text-extraction")
               ELSE NoneResult
  /\ AfterExtract(result')
  /\ UNCHANGED <<doc, apiKey, formFields, structuredData, ocrFields>>
  /\ UNCHANGED nonExtractVars

\* Method 4: await extractWithOCR(pdfPath, apiKey).  Without a key it
\* returns {} at once; with one it submits the document and polls, and
\* every failure ends it with {}.  Any field it returns is the result.
ExtractWithOCR(ending) ==
  /\ epc = "ocr"
  /\ ran' = IF Truthy(apiKey) THEN Append(ran, "datalab-ocr") ELSE ran
  /\ ocrFields' = IF Truthy(apiKey) THEN OcrResult(ending) ELSE EmptyObject
  /\ parsed' = IF FieldCount(ocrFields') > 0
               THEN Returned(ocrFields', FieldCount(ocrFields'), "datalab-ocr")
               ELSE Returned(result.fields, result.fieldCount, result.method)
  /\ epc' = "done"
  /\ UNCHANGED <<doc, apiKey, formFields, structuredData, textFields, result>>
  /\ UNCHANGED nonExtractVars

ExtractNext ==
  \/ ExtractFormFields
  \/ ExtractWithPdf2Json
  \/ ExtractTextFails
  \/ ExtractText
  \/ \E ending \in OcrEndings : ExtractWithOCR(ending)

ExtractSpec == ExtractInit /\ [][ExtractNext]_vars


\* ------------------------------------------------------------------------
\* Properties of extractPDFData and parsePDF
\* ------------------------------------------------------------------------
MethodOrder == <<"form-fields", "pdf2json", "text-extraction", "datalab-ocr">>

Started(method) == \E i \in 1..Len(ran) : ran[i] = method

\* What the free-text method yields on a readable document: nothing from
\* a text of at most 50 characters.
FreeTextFields(d) ==
  IF Len(d.text.text) > 50 THEN parseFieldsFromText(d.text.text) ELSE EmptyObject

Exhausted ==
  /\ epc = "done"
  /\ doc.text.readOk
  /\ Len(extractFormFields(doc.form)) = 0
  /\ Len(extractWithPdf2Json(doc.json)) <= 5
  /\ Len(FreeTextFields(doc)) <= 5
  /\ Len(ocrFields) = 0

\* The form fields that can be read and hold a value.
ReadableFields(form) ==
  {i \in 1..Len(form.fields) :
     /\ ~form.fields[i].throws
     /\ Trim(FormFieldValue(form.fields[i])) # <<>>}

DecimalDigits == <<"0", "1", "2", "3", "4", "5", "6", "7", "8", "9">>

RECURSIVE Decimal(_)
Decimal(n) ==
  IF n < 10 THEN <<DecimalDigits[n + 1]>>
  ELSE Decimal(n \div 10) \o <<DecimalDigits[(n % 10) + 1]>>

\* The text of a field name of the upload form.
FieldNameText(fieldname) ==
  CASE fieldname = "pdf" -> <<"p", "d", "f">>
    [] fieldname = "csv" -> <<"c", "s", "v">>
    [] OTHER -> <<"d", "a", "t", "a", "P", "d", "f">>

\* path.extname(file.originalname) of a file the fileFilter lets through.
ExtName(fieldname) ==
  IF fieldname = "csv" THEN <<".", "c", "s", "v">> ELSE <<".", "p", "d", "f">>

\* storage.filename: fieldname + '-' + Date.now() + '-' + random + extname.
UploadFilename(fieldname, t, rnd) ==
  FieldNameText(fieldname) \o <<"-">> \o Decimal(t) \o <<"-">> \o Decimal(rnd)
    \o ExtName(fieldname)

\* `filled-${Date.now()}.pdf`
OutputFilename(t) ==
  <<"f", "i", "l", "l", "e", "d", "-">> \o Decimal(t) \o <<".", "p", "d", "f">>

\* path.join('./uploads', name); multer joins destination and filename alike.
UploadsPath(name) == <<"u", "p", "l", "o", "a", "d", "s", "/">> \o name

\* The files of an upload request, in the order of the multipart body; every
\* one passes the fileFilter.
UploadBodies ==
  {<<>>, <<"pdf">>, <<"csv">>, <<"pdf", "csv">>, <<"pdf", "dataPdf">>}

\* upload.fields admits one file for each of the three field names: the
\* bodies above, a data document alone, and all three files.
MultipartBodies ==
  UploadBodies \cup {<<"dataPdf">>, <<"pdf", "csv", "dataPdf">>}

\* The dataType of the /upload response for the stored fields: 'text' without
\* a data file, else req.files.csv ? 'csv' : 'pdf'.
UploadDataType(stored) ==
  IF "csv" \notin stored /\ "dataPdf" \notin stored THEN "text"
  ELSE IF "csv" \in stored THEN "csv" ELSE "pdf"

\* The bodies of a fill request.  rowIndex is <<>> when undefined, <<n>> else.
RowIndexValues == {<<>>} \cup {<<n>> : n \in (-1)..(MaxRows + 1)}

FillBodies ==
  [pdfPath : {NoVal, "uploads/form.pdf"},
   csvPath : {NoVal, "uploads/data.csv"},
   dataPdfPath : {NoVal, "uploads/data.pdf"},
   textData : {NoVal, "Name: Ann"},
   rowIndex : RowIndexValues]

\* The branch of the data source: textData, then csvPath, then dataPdfPath.
DataSource(body) ==
  IF Truthy(body.textData) THEN "text"
  ELSE IF Truthy(body.csvPath) THEN "csv" ELSE "dataPdf"

\* The parser rejects.
ParseThrows == <<>>

\* <<parsedData.rows.length>> for each data source, ParseThrows when the
\* parser rejects.  parseText and parsePDF return one row, parseCSV any number.
ParseOutcomes(source) ==
  CASE source = "csv" -> {ParseThrows} \cup {<<n>> : n \in 0..MaxRows}
    [] source = "dataPdf" ->
         {ParseThrows, <<Len(convertExtractedDataToRows(EmptyObject).rows)>>}
    [] OTHER -> {<<1>>}

\* rowIndex < 0 || rowIndex > parsedData.rows.length
RowOutOfBoundsOffByOne(rowIndex, rows) == rowIndex < 0 \/ rowIndex > rows

\* rowIndex < 0 || rowIndex >= parsedData.rows.length
RowOutOfBounds(rowIndex, rows) == rowIndex < 0 \/ rowIndex >= rows

\* path.join('./uploads', `filled-${Date.now()}.pdf`)
OutputPath(t) == UploadsPath(OutputFilename(t))

\* res.status(code).json({ error })
Reply(code, message) == [status |-> code, error |-> message]

\* res.json({ success: true, ... })
ReplySuccess == [status |-> 200, error |-> ""]

\* How a call of pollAndDownloadPDF can end.
PollOutcomes ==
  {Success, TimeoutError, FillFailedError, NoOutputError, StatusCheckError,
   DownloadError}

\* The handler of request r ends with the response rep.
Respond(r, rq, rep) ==
  req' = [req EXCEPT ![r] = [rq EXCEPT !.rpc = "done", !.response = rep]]

\* /fill-form from the row check to the call of fillPDFForm, which runs up to
\* its axios.post.
SelectRowAndSubmit(r, rq, rows) ==
  LET checked == [rq EXCEPT !.rows = rows] IN
  IF RowOutOfBounds(rq.rowIndex[1], rows)
  THEN /\ Respond(r, checked, Reply(400, "Invalid row index"))
       /\ UNCHANGED submits
  ELSE IF ~Truthy(envKey)
  THEN /\ Respond(r, checked, Reply(500, "DATALAB_API_KEY not configured"))
       /\ UNCHANGED submits
  ELSE /\ req' = [req EXCEPT ![r] = [checked EXCEPT !.rpc = "submitted"]]
       /\ submits' = submits \cup {r}

\* State after construction: the server listens, no request has arrived, and
\* process.env.DATALAB_API_KEY is set or not.
RouteInit ==
  /\ PollIdle
  /\ ExtractIdle
  /\ DataIdle
  /\ OtherIdle
  /\ now = 0
  /\ envKey \in {NoVal, "key"}
  /\ req = [r \in Requests |-> NoRequest]
  /\ written = [r \in Requests |-> {}]
  /\ submits = {}
  /\ pollers = {}

\* Date.now() advances.
Tick ==
  /\ now < MaxClock
  /\ now' = now + 1
  /\ UNCHANGED <<envKey, req, written, submits, pollers>>
  /\ UNCHANGED nonRouteVars

\* POST /upload arrives: multer starts to store its files.
ReceiveUpload(r, files) ==
  /\ req[r].kind = "none"
  /\ req' = [req EXCEPT ![r] =
               [NoRequest EXCEPT !.kind = "upload", !.rpc = "storing",
                                 !.files = files]]
  /\ UNCHANGED <<now, envKey, written, submits, pollers>>
  /\ UNCHANGED nonRouteVars

\* The storage names the next file of the request and writes it.
StoreFile(r, rnd) ==
  /\ req[r].rpc = "storing"
  /\ req[r].files # <<>>
  /\ LET fieldname == Head(req[r].files) IN
       /\ written' = [written EXCEPT ![r] =
                        @ \cup {UploadsPath(UploadFilename(fieldname, now, rnd))}]
       /\ req' = [req EXCEPT ![r].files = Tail(@),
                             ![r].stored = @ \cup {fieldname}]
  /\ UNCHANGED <<now, envKey, submits, pollers>>
  /\ UNCHANGED nonRouteVars

\* The /upload handler, run when every file is stored.
UploadRespond(r) ==
  /\ req[r].rpc = "storing"
  /\ req[r].files = <<>>
  /\ IF "pdf" \notin req[r].stored
     THEN Respond(r, req[r], Reply(400, "PDF form file is required"))
     ELSE Respond(r, [req[r] EXCEPT !.dataType = UploadDataType(req[r].stored)],
                  ReplySuccess)
  /\ UNCHANGED <<now, envKey, written, submits, pollers>>
  /\ UNCHANGED nonRouteVars

\* POST /fill-form arrives: the handler runs to its first await or response.
FillForm(r, body) ==
  /\ req[r].kind = "none"
  /\ LET rq == [NoRequest EXCEPT !.kind = "fill", !.rowIndex = body.rowIndex] IN
     IF ~Truthy(body.pdfPath)
     THEN /\ Respond(r, rq, Reply(400, "PDF path is required"))
          /\ UNCHANGED submits
     ELSE IF ~Truthy(body.csvPath) /\ ~Truthy(body.dataPdfPath)
             /\ ~Truthy(body.textData)
     THEN /\ Respond(r, rq,
                Reply(400, "Either CSV path, data PDF path, or text data is required"))
          /\ UNCHANGED submits
     ELSE IF body.rowIndex = <<>>
     THEN /\ Respond(r, rq, Reply(400, "Row index is required"))
          /\ UNCHANGED submits
     ELSE IF DataSource(body) = "text"
     THEN \E n \in ParseOutcomes("text") :
            SelectRowAndSubmit(r, [rq EXCEPT !.source = "text"], n[1])
     ELSE IF DataSource(body) = "dataPdf" /\ ~Truthy(envKey)
     THEN /\ Respond(r, [rq EXCEPT !.source = "dataPdf"],
                Reply(500, "DATALAB_API_KEY not configured"))
          /\ UNCHANGED submits
     ELSE /\ req' = [req EXCEPT ![r] =
                       [rq EXCEPT !.source = DataSource(body), !.rpc = "parsing"]]
          /\ UNCHANGED submits
  /\ UNCHANGED <<now, envKey, written, pollers>>
  /\ UNCHANGED nonRouteVars

\* parseCSV or parsePDF settles: the handler goes on to the row check.
FillParsed(r, n) ==
  /\ req[r].rpc = "parsing"
  /\ n \in ParseOutcomes(req[r].source)
  /\ IF n = ParseThrows
     THEN /\ Respond(r, req[r], Reply(500, "Failed to parse"))
          /\ UNCHANGED submits
     ELSE SelectRowAndSubmit(r, req[r], n[1])
  /\ UNCHANGED <<now, envKey, written, pollers>>
  /\ UNCHANGED nonRouteVars

\* fillPDFForm settles: on success the output path is generated and
\* pollAndDownloadPDF makes its first status request.
FillSubmitted(r, ok) ==
  /\ req[r].rpc = "submitted"
  /\ IF ~ok
     THEN /\ Respond(r, req[r], Reply(500, "Datalab API error"))
          /\ UNCHANGED pollers
     ELSE /\ req' = [req EXCEPT ![r].rpc = "polling",
                                ![r].outputPath = OutputPath(now)]
          /\ pollers' = pollers \cup {r}
  /\ UNCHANGED <<now, envKey, written, submits>>
  /\ UNCHANGED nonRouteVars

\* pollAndDownloadPDF settles: a success has written the output file.
FillPolled(r, ending) ==
  /\ req[r].rpc = "polling"
  /\ IF ending = Success
     THEN /\ written' = [written EXCEPT ![r] = @ \cup {req[r].outputPath}]
          /\ Respond(r, req[r], ReplySuccess)
     ELSE /\ Respond(r, req[r], Reply(500, ending))
          /\ UNCHANGED written
  /\ UNCHANGED <<now, envKey, submits, pollers>>
  /\ UNCHANGED nonRouteVars

RouteNext ==
  \/ Tick
  \/ \E r \in Requests, files \in UploadBodies : ReceiveUpload(r, files)
  \/ \E r \in Requests, rnd \in 0..RandBound : StoreFile(r, rnd)
  \/ \E r \in Requests : UploadRespond(r)
  \/ \E r \in Requests, body \in FillBodies : FillForm(r, body)
  \/ \E r \in Requests, n \in {ParseThrows} \cup {<<k>> : k \in 0..MaxRows} :
       FillParsed(r, n)
  \/ \E r \in Requests, ok \in BOOLEAN : FillSubmitted(r, ok)
  \/ \E r \in Requests, ending \in PollOutcomes : FillPolled(r, ending)

RouteSpec == RouteInit /\ [][RouteNext]_vars

\* The /upload route on its own, over every body multer admits.
UploadNext ==
  \/ Tick
  \/ \E r \in Requests, files \in MultipartBodies : ReceiveUpload(r, files)
  \/ \E r \in Requests, rnd \in 0..RandBound : StoreFile(r, rnd)
  \/ \E r \in Requests : UploadRespond(r)

UploadSpec == RouteInit /\ [][UploadNext]_vars

\* ------------------------------------------------------------------------
\* Properties of the request layer
\* ------------------------------------------------------------------------
\* The fill requests that passed the presence checks of the body.
FillRequests == {r \in Requests : req[r].kind = "fill" /\ req[r].rowIndex # <<>>}

\* Request r has had no effect beyond its response.
NoFillEffects(r) ==
  /\ r \notin submits
  /\ r \notin pollers
  /\ written[r] = {}
  /\ req[r].outputPath = Undefined

C10_UniquePaths ==
  \A r1, r2 \in Requests : r1 # r2 => written[r1] \cap written[r2] = {}

\* Two fill requests have produced their output files at the same path.
C10_OutputClash ==
  \E r1, r2 \in Requests :
    /\ r1 # r2
    /\ req[r1].kind = "fill" /\ req[r2].kind = "fill"
    /\ req[r1].response.status = 200 /\ req[r2].response.status = 200
    /\ req[r1].outputPath = req[r2].outputPath
    /\ req[r1].outputPath \in written[r1] \cap written[r2]

\* The upload requests that have been answered.
AnsweredUploads ==
  {r \in Requests : req[r].kind = "upload" /\ req[r].rpc = "done"}

\* The data files request r carried: the stored fields other than the
\* template.
DataFiles(r) == req[r].stored \ {"pdf"}

\* C22: an upload request is accepted only if it carries the template
\* together with exactly one of a tabular data file, a data document, or
\* neither; the returned data-source kind is then 'csv', 'pdf' or 'text'
\* respectively, and a request without the template is rejected.
C22_UploadAcceptance ==
  \A r \in AnsweredUploads :
    /\ "pdf" \notin req[r].stored =>
         req[r].response = [status |-> 400, error |-> "PDF form file is required"]
    /\ req[r].response.status = 200 =>
         /\ "pdf" \in req[r].stored
         /\ Cardinality(DataFiles(r)) <= 1
         /\ DataFiles(r) = {"csv"} => req[r].dataType = "csv"
         /\ DataFiles(r) = {"dataPdf"} => req[r].dataType = "pdf"
         /\ DataFiles(r) = {} => req[r].dataType = "text"

\* An upload with the template, a tabular data file and a data document is
\* accepted with the kind 'csv'; all three files are on disk.
C22_BothDataFilesAccepted ==
  \E r \in AnsweredUploads :
    /\ req[r].stored = {"pdf", "csv", "dataPdf"}
    /\ req[r].response.status = 200
    /\ req[r].dataType = "csv"
    /\ Cardinality(written[r]) = 3

\* The three admitted upload shapes are answered with their kinds, and an
\* upload without the template is rejected.
UploadKindsReturned ==
  \E r1, r2 \in AnsweredUploads :
    /\ req[r1].stored = {"pdf", "dataPdf"} /\ req[r1].dataType = "pdf"
    /\ req[r2].stored = {"csv"} /\ req[r2].response.status = 400

\* ========================================================================
\* Row-to-Field-Data Converter and the heuristic mapping generators
\* (csvParser.js: convertRowToFieldData, generateFieldMappings;
\*  textParser.js: generateTextFieldMappings)
\* ========================================================================
\* The text of a string literal.
Chars(s) == [i \in 1..Len(s) |-> SubSeq(s, i, i)]

\* String.prototype.toLowerCase on one character.
LowerCaseChar(c) ==
  IF c \in UpperChars
  THEN Chars("abcdefghijklmnopqrstuvwxyz")[
         CHOOSE i \in 1..26 : Chars("ABCDEFGHIJKLMNOPQRSTUVWXYZ")[i] = c]
  ELSE c

\* String.prototype.toLowerCase
ToLowerCase(t) == [i \in 1..Len(t) |-> LowerCaseChar(t[i])]

\* replace(/\s+/g, '_'): every run of white space becomes one underscore.
RECURSIVE ReplaceSpaceRuns(_)
ReplaceSpaceRuns(t) ==
  IF t = <<>> THEN <<>>
  ELSE IF IsSpace(Head(t)) THEN <<"_">> \o ReplaceSpaceRuns(TrimStart(t))
  ELSE <<Head(t)>> \o ReplaceSpaceRuns(Tail(t))

\* key.toLowerCase().replace(/\s+/g, '_')
NormalizeKey(key) == ReplaceSpaceRuns(ToLowerCase(key))

\* The word w occurs in t at or after position from.
Occurs(t, w, from) ==
  \E i \in from..(Len(t) - Len(w) + 1) : SubSeq(t, i, i + Len(w) - 1) = w

\* One alternative of a rule, <<a>> for /a/i and <<a, b>> for /a.*b/i, tested
\* on a header (a header has no line break, so `.` matches all its characters).
AlternativeTest(alt, header) ==
  LET t == ToLowerCase(header)
      a == Chars(alt[1])
  IN  IF Len(alt) = 1 THEN Occurs(t, a, 1)
      ELSE \E i \in 1..(Len(t) - Len(a) + 1) :
             /\ SubSeq(t, i, i + Len(a) - 1) = a
             /\ Occurs(t, Chars(alt[2]), i + Len(a))

\* pattern.test(header)
PatternTest(pattern, header) == \E alt \in pattern : AlternativeTest(alt, header)

\* One rule of a generator.
Rule(pattern, description) ==
  [pattern |-> pattern, description |-> Chars(description)]

\* generateFieldMappings: const fieldPatterns
fieldPatterns ==
  << Rule({<<"title">>, <<"company", "name">>}, "Title or Company Name"),
     Rule({<<"surname">>, <<"last", "name">>}, "Surname or Last Name"),
     Rule({<<"first", "name">>, <<"given", "name">>}, "First Name"),
     Rule({<<"street">>, <<"address", "street">>}, "Street Address"),
     Rule({<<"number">>, <<"street", "number">>}, "Street Number"),
     Rule({<<"postcode">>, <<"postal", "code">>, <<"zip">>}, "Postal Code"),
     Rule({<<"town">>, <<"city">>}, "Town or City"),
     Rule({<<"country">>}, "Country"),
     Rule({<<"account", "holder">>}, "Account Holder Name"),
     Rule({<<"iban">>}, "IBAN Number"),
     Rule({<<"swift">>, <<"bic">>}, "SWIFT Code (BIC)"),
     Rule({<<"currency">>}, "Currency"),
     Rule({<<"bank", "account">>, <<"account", "number">>}, "Bank Account Number"),
     Rule({<<"routing">>}, "Routing Number (US banks)"),
     Rule({<<"bank", "name">>}, "Bank Name") >>

\* generateTextFieldMappings: const fieldPatterns
textFieldPatterns ==
  << Rule({<<"name">>, <<"full", "name">>, <<"first", "name">>}, "Name"),
     Rule({<<"email">>, <<"e-mail">>}, "Email Address"),
     Rule({<<"phone">>, <<"telephone">>, <<"mobile">>, <<"contact">>}, "Phone Number"),
     Rule({<<"address">>, <<"street">>}, "Address"),
     Rule({<<"city">>, <<"town">>}, "City"),
     Rule({<<"state">>, <<"province">>}, "State/Province"),
     Rule({<<"zip">>, <<"postal", "code">>, <<"postcode">>}, "Postal Code"),
     Rule({<<"country">>}, "Country"),
     Rule({<<"company">>, <<"organization">>}, "Company Name"),
     Rule({<<"title">>, <<"position">>, <<"job">>}, "Job Title"),
     Rule({<<"date">>, <<"when">>}, "Date"),
     Rule({<<"signature">>, <<"sign">>}, "Signature") >>

\* The for loop over the rules without the fallback to the header.
FirstMatchOrUndefined(patterns, header) ==
  LET hits == {i \in 1..Len(patterns) : PatternTest(patterns[i].pattern, header)}
  IN  IF hits = {} THEN Undefined
      ELSE patterns[CHOOSE i \in hits : \A j \in hits : i <= j].description

\* The for loop over the rules: the description of the first rule whose
\* pattern matches the header, the header itself when none does.
FirstMatchOrSelf(patterns, header) ==
  LET hits == {i \in 1..Len(patterns) : PatternTest(patterns[i].pattern, header)}
  IN  IF hits = {} THEN header
      ELSE patterns[CHOOSE i \in hits : \A j \in hits : i <= j].description

\* generateFieldMappings(headers): headers.forEach from the mappings so far.
RECURSIVE GenerateFrom(_, _)
GenerateFrom(headers, acc) ==
  IF headers = <<>> THEN acc
  ELSE GenerateFrom(Tail(headers),
         Put(acc, NormalizeKey(Head(headers)),
             FirstMatchOrSelf(fieldPatterns, Head(headers))))

generateFieldMappings(headers) == GenerateFrom(headers, EmptyObject)

\* generateTextFieldMappings(headers): the entry goes under the header itself.
RECURSIVE GenerateTextFrom(_, _)
GenerateTextFrom(headers, acc) ==
  IF headers = <<>> THEN acc
  ELSE GenerateTextFrom(Tail(headers),
         Put(acc, Head(headers),
             FirstMatchOrSelf(textFieldPatterns, Head(headers))))

generateTextFieldMappings(headers) == GenerateTextFrom(headers, EmptyObject)

\* One entry of an object literal.
Entry(key, value) == [k |-> Chars(key), v |-> Chars(value)]

\* convertRowToFieldData: const defaultMappings
defaultMappings ==
  << Entry("title", "Title or Company Name"),
     Entry("company_name", "Company Name"),
     Entry("company", "Company Name"),
     Entry("surname", "Surname or Last Name"),
     Entry("last_name", "Surname or Last Name"),
     Entry("lastname", "Surname or Last Name"),
     Entry("name", "First Name"),
     Entry("first_name", "First Name"),
     Entry("firstname", "First Name"),
     Entry("street", "Street Address"),
     Entry("address", "Street Address"),
     Entry("address_street", "Street Address"),
     Entry("number", "Street Number"),
     Entry("street_number", "Street Number"),
     Entry("postcode", "Postal Code"),
     Entry("postal_code", "Postal Code"),
     Entry("zip", "Postal Code"),
     Entry("zip_code", "Postal Code"),
     Entry("town", "Town or City"),
     Entry("city", "Town or City"),
     Entry("town_city", "Town or City"),
     Entry("country", "Country"),
     Entry("account_holder", "Account Holder Name"),
     Entry("iban", "IBAN Number"),
     Entry("swift", "SWIFT Code (BIC)"),
     Entry("swift_code", "SWIFT Code (BIC)"),
     Entry("bic", "SWIFT Code (BIC)"),
     Entry("currency", "Currency"),
     Entry("bank_account_number", "Bank Account Number"),
     Entry("account_number", "Bank Account Number"),
     Entry("routing_number", "Routing Number (US banks)"),
     Entry("bank_name", "Bank Name"),
     Entry("bank_street", "Bank Street Address"),
     Entry("bank_address", "Bank Street Address"),
     Entry("bank_number", "Bank Street Number"),
     Entry("bank_postcode", "Bank Postal Code"),
     Entry("bank_zip", "Bank Postal Code"),
     Entry("bank_town", "Bank Town or City"),
     Entry("bank_city", "Bank Town or City"),
     Entry("bank_country", "Bank Country"),
     Entry("swift_correspondent", "SWIFT Correspondent") >>

\* columnMappings = null: no table is supplied.
NoTable == <<[k |-> <<>>, v |-> <<"null">>]>>

\* What mappings[name] yields for a name the table does not own but every
\* object inherits: the member of Object.prototype, which is not a text.
InheritedMember == <<"function">>

\* Normalized keys are lower-case, so of the members of Object.prototype a
\* lookup can reach the all-lower-case names.
ObjectPrototypeNames == {Chars("constructor")}

\* mappings[normalizedKey]
Lookup(table, name) ==
  IF HasKey(table, name) THEN Get(table, name)
  ELSE IF name \in ObjectPrototypeNames THEN InheritedMember
  ELSE Undefined

\* if (value)
KeepValueUntrimmed(value) == value # EmptyText

\* if (value && value.toString().trim() !== '')
KeepValue(value) == value # EmptyText /\ Trim(value) # EmptyText

\* const mappings = columnMappings || defaultMappings
Mappings(supplied) ==
  IF supplied = NoTable THEN defaultMappings ELSE supplied

\* The for loop of convertRowToFieldData from the fieldData so far.
RECURSIVE ConvertEntries(_, _, _)
ConvertEntries(entries, table, acc) ==
  IF entries = <<>> THEN acc
  ELSE LET key == Head(entries).k
           value == Head(entries).v
           found == Lookup(table, NormalizeKey(key))
           description == IF TruthyText(found) THEN found ELSE key
       IN  ConvertEntries(Tail(entries), table,
             IF KeepValue(value)
             THEN Put(acc, key,
                      [value |-> Trim(value), description |-> description])
             ELSE acc)

convertRowToFieldData(r, supplied) ==
  ConvertEntries(r, Mappings(supplied), EmptyObject)

\* ---- The rows and tables the converter and the generators are explored on ----

\* The headers of the data, in file order; a row takes a run of them.
HeaderStream ==
  << Chars("zip_code"), Chars("random_field"), Chars("account_number"),
     Chars("routing_number"), Chars("bank_account_number"), Chars("Constructor"),
     Chars("First Name"), Chars("first_name"), Chars("Last  Name"),
     Chars("my field"), Chars("my_field"), Chars("IBAN"), Chars("7"),
     Chars("Email") >>

\* The cell values: empty, white space only, padded, plain.
ValuePool == {EmptyText, Chars("  "), Chars(" Ann "), Chars("x")}

\* The rows of at most MaxRowKeys columns.
Rows ==
  {EmptyObject} \cup
  { CopyRow([i \in 1..w[2] |-> [k |-> HeaderStream[w[1] + i - 1], v |-> f[i]]],
            EmptyObject) :
      w \in {v \in (1..Len(HeaderStream)) \X (1..MaxRowKeys) :
               v[1] + v[2] - 1 <= Len(HeaderStream)},
      f \in [1..MaxRowKeys -> ValuePool] }

\* A table a caller edited by hand; one description is left empty.
CustomTable == <<Entry("first_name", "Given name"), Entry("zip_code", "")>>

\* The tables a caller passes for a row: none, an empty one, an edited one,
\* or what a generator returned for the headers of the row.
Tables(r) ==
  {NoTable, EmptyObject, CustomTable, generateFieldMappings(Keys(r)),
   generateTextFieldMappings(Keys(r))}

\* One row is converted and its headers are given to both generators, each
\* once, in any order.
MapInit ==
  /\ PollIdle
  /\ ExtractIdle
  /\ RouteIdle
  /\ TextIdle
  /\ CsvIdle
  /\ OtherIdle
  /\ row \in Rows
  /\ columnMappings \in Tables(row)
  /\ fieldData = EmptyObject
  /\ mappings = EmptyObject
  /\ textMappings = EmptyObject
  /\ mapped = {}

\* convertRowToFieldData(row, columnMappings)
ConvertRow ==
  /\ "fieldData" \notin mapped
  /\ fieldData' = convertRowToFieldData(row, columnMappings)
  /\ mapped' = mapped \cup {"fieldData"}
  /\ UNCHANGED <<row, columnMappings, mappings, textMappings>>
  /\ UNCHANGED nonMapVars

\* generateFieldMappings(headers)
GenerateFieldMappings ==
  /\ "mappings" \notin mapped
  /\ mappings' = generateFieldMappings(Keys(row))
  /\ mapped' = mapped \cup {"mappings"}
  /\ UNCHANGED <<row, columnMappings, fieldData, textMappings>>
  /\ UNCHANGED nonMapVars

\* generateTextFieldMappings(headers)
GenerateTextFieldMappings ==
  /\ "textMappings" \notin mapped
  /\ textMappings' = generateTextFieldMappings(Keys(row))
  /\ mapped' = mapped \cup {"textMappings"}
  /\ UNCHANGED <<row, columnMappings, fieldData, mappings>>
  /\ UNCHANGED nonMapVars

MapNext ==
  \/ ConvertRow
  \/ GenerateFieldMappings
  \/ GenerateTextFieldMappings

MapSpec == MapInit /\ [][MapNext]_vars

\* ------------------------------------------------------------------------
\* Properties of the converter and of the generators
\* ------------------------------------------------------------------------
\* The headers of the row, in order.
RowHeaders == Keys(row)

\* Rule i of the list is the first whose pattern matches header h.
IsFirstRule(patterns, i, h) ==
  /\ PatternTest(patterns[i].pattern, h)
  /\ \A j \in 1..(i - 1) : ~PatternTest(patterns[j].pattern, h)

\* No rule of the list matches header h.
NoRule(patterns, h) == \A i \in 1..Len(patterns) : ~PatternTest(patterns[i].pattern, h)

\* C11: convertRowToFieldData emits an entry only for keys whose value is
\* non-empty after trimming (and for every such key); every output key is a
\* key of the row, character for character; the emitted value is the trimmed
\* value; there are never more output keys than input keys.
C11_ConverterKeepsNonEmpty ==
  "fieldData" \in mapped =>
    /\ \A i \in 1..Len(fieldData) :
         /\ HasKey(row, fieldData[i].k)
         /\ Trim(Get(row, fieldData[i].k)) # EmptyText
         /\ fieldData[i].v.value = Trim(Get(row, fieldData[i].k))
    /\ \A i \in 1..Len(row) :
         Trim(row[i].v) # EmptyText => HasKey(fieldData, row[i].k)
    /\ Len(fieldData) <= Len(row)
    /\ \A i, j \in 1..Len(fieldData) : fieldData[i].k = fieldData[j].k => i = j

\* C11 happens: of a row with the columns `First Name` = ` Ann ` and
\* `first_name` = white space, only `First Name` is emitted, with value `Ann`.
C11_Witness ==
  /\ "fieldData" \in mapped
  /\ Keys(row) = <<Chars("First Name"), Chars("first_name")>>
  /\ Get(row, Chars("First Name")) = Chars(" Ann ")
  /\ Get(row, Chars("first_name")) = Chars("  ")
  /\ Keys(fieldData) = <<Chars("First Name")>>
  /\ Get(fieldData, Chars("First Name")).value = Chars("Ann")

\* The table the claim says is used: the supplied one when given, the
\* default one otherwise.
ClaimedTable == IF columnMappings = NoTable THEN defaultMappings ELSE columnMappings

\* C12: for every key convertRowToFieldData emits, the description is the
\* entry of the table (the supplied one when given, the default one
\* otherwise) for the normalized key when there is one, and the original key
\* verbatim otherwise.
C12_DescriptionFromTable ==
  "fieldData" \in mapped =>
    \A i \in 1..Len(fieldData) :
      LET key == fieldData[i].k
          name == NormalizeKey(key)
      IN  fieldData[i].v.description =
            IF HasKey(ClaimedTable, name) THEN Get(ClaimedTable, name) ELSE key

\* A key whose normalized form names a member every object inherits has been
\* given that member, not the key, as description.
C12_InheritedDescription ==
  /\ "fieldData" \in mapped
  /\ \E i \in 1..Len(fieldData) :
       /\ fieldData[i].k = Chars("Constructor")
       /\ ~HasKey(ClaimedTable, Chars("constructor"))
       /\ fieldData[i].v.description = InheritedMember

\* C13: for every header h both generators have an entry under the
\* normalized form of h, whose value is the description of the first rule
\* of the generator that matches h, or h when none matches.
C13_NormalizedEntryPerHeader ==
  /\ "mappings" \in mapped =>
       \A n \in 1..Len(RowHeaders) :
         LET h == RowHeaders[n] IN
         /\ HasKey(mappings, NormalizeKey(h))
         /\ \/ \E i \in 1..Len(fieldPatterns) :
                 /\ IsFirstRule(fieldPatterns, i, h)
                 /\ Get(mappings, NormalizeKey(h)) = fieldPatterns[i].description
            \/ NoRule(fieldPatterns, h) /\ Get(mappings, NormalizeKey(h)) = h
  /\ "textMappings" \in mapped =>
       \A n \in 1..Len(RowHeaders) :
         LET h == RowHeaders[n] IN
         /\ HasKey(textMappings, NormalizeKey(h))
         /\ \/ \E i \in 1..Len(textFieldPatterns) :
                 /\ IsFirstRule(textFieldPatterns, i, h)
                 /\ Get(textMappings, NormalizeKey(h)) = textFieldPatterns[i].description
            \/ NoRule(textFieldPatterns, h) /\ Get(textMappings, NormalizeKey(h)) = h

\* generateTextFieldMappings has stored the entry of `First Name` under the
\* header itself and none under `first_name`.
C13_RawKeyEntry ==
  /\ "textMappings" \in mapped
  /\ RowHeaders = <<Chars("First Name")>>
  /\ Keys(textMappings) = <<Chars("First Name")>>
  /\ ~HasKey(textMappings, Chars("first_name"))

\* The description a header gets from each generator: the entry under the
\* key the generator files the header under.
CsvDescription(h) == Lookup(mappings, NormalizeKey(h))
TextDescription(h) == Lookup(textMappings, h)

\* C14: lookup is total: every header gets a non-null description from
\* either generator, a header that matches no rule gets itself, `zip_code`
\* gets 'Postal Code' and `random_field` gets 'random_field'.
C14_LookupTotal ==
  /\ "mappings" \in mapped =>
       \A n \in 1..Len(RowHeaders) :
         LET h == RowHeaders[n] IN
         /\ CsvDescription(h) # Undefined
         /\ NoRule(fieldPatterns, h) => CsvDescription(h) = h
         /\ h = Chars("zip_code") => CsvDescription(h) = Chars("Postal Code")
         /\ h = Chars("random_field") => CsvDescription(h) = Chars("random_field")
  /\ "textMappings" \in mapped =>
       \A n \in 1..Len(RowHeaders) :
         LET h == RowHeaders[n] IN
         /\ TextDescription(h) # Undefined
         /\ NoRule(textFieldPatterns, h) => TextDescription(h) = h
         /\ h = Chars("zip_code") => TextDescription(h) = Chars("Postal Code")
         /\ h = Chars("random_field") => TextDescription(h) = Chars("random_field")

\* Header n is the last of the list with its normalized form.
LastOfItsForm(n) ==
  \A m \in (n + 1)..Len(RowHeaders) :
    NormalizeKey(RowHeaders[m]) # NormalizeKey(RowHeaders[n])

\* C14 amended: every header gets a non-null description from either
\* generator; a header that matches no rule gets itself, unless a later
\* header of the list has the same normalized form, in which case
\* generateFieldMappings gives it the description of the last such header;
\* `zip_code` gets 'Postal Code' and `random_field` gets 'random_field'.
C14_Amended ==
  /\ "mappings" \in mapped =>
       \A n \in 1..Len(RowHeaders) :
         LET h == RowHeaders[n] IN
         /\ CsvDescription(h) # Undefined
         /\ (NoRule(fieldPatterns, h) /\ LastOfItsForm(n)) => CsvDescription(h) = h
         /\ \E m \in n..Len(RowHeaders) :
              /\ NormalizeKey(RowHeaders[m]) = NormalizeKey(h)
              /\ LastOfItsForm(m)
              /\ \/ \E i \in 1..Len(fieldPatterns) :
                      /\ IsFirstRule(fieldPatterns, i, RowHeaders[m])
                      /\ CsvDescription(h) = fieldPatterns[i].description
                 \/ /\ NoRule(fieldPatterns, RowHeaders[m])
                    /\ CsvDescription(h) = RowHeaders[m]
         /\ h = Chars("zip_code") => CsvDescription(h) = Chars("Postal Code")
         /\ h = Chars("random_field") => CsvDescription(h) = Chars("random_field")
  /\ "textMappings" \in mapped =>
       \A n \in 1..Len(RowHeaders) :
         LET h == RowHeaders[n] IN
         /\ TextDescription(h) # Undefined
         /\ NoRule(textFieldPatterns, h) => TextDescription(h) = h
         /\ h = Chars("zip_code") => TextDescription(h) = Chars("Postal Code")
         /\ h = Chars("random_field") => TextDescription(h) = Chars("random_field")

\* C14 happens: both generators have mapped the headers `zip_code` and
\* `random_field`.
C14_Witness ==
  /\ {"mappings", "textMappings"} \subseteq mapped
  /\ RowHeaders = <<Chars("zip_code"), Chars("random_field")>>
  /\ CsvDescription(Chars("zip_code")) = Chars("Postal Code")
  /\ CsvDescription(Chars("random_field")) = Chars("random_field")
  /\ TextDescription(Chars("zip_code")) = Chars("Postal Code")
  /\ TextDescription(Chars("random_field")) = Chars("random_field")

\* The bank-detail headers and the description the default table gives each.
BankHeaders ==
  {Chars("account_number"), Chars("bank_account_number"), Chars("routing_number")}

\* C15: generateFieldMappings maps a header naming an account number or a
\* routing number to the bank-account-number or routing-number description,
\* the description the converter's default table gives that key.
C15_BankHeadersRecognized ==
  "mappings" \in mapped =>
    \A n \in 1..Len(RowHeaders) :
      LET h == RowHeaders[n] IN
      h \in BankHeaders =>
        /\ CsvDescription(h) = Get(defaultMappings, NormalizeKey(h))
        /\ CsvDescription(h) \in {Chars("Bank Account Number"),
                                    Chars("Routing Number (US banks)")}

\* generateFieldMappings has given `account_number` and `routing_number` the
\* description of the street-number rule.
C15_StreetNumberInstead ==
  /\ "mappings" \in mapped
  /\ RowHeaders = <<Chars("account_number"), Chars("routing_number")>>
  /\ CsvDescription(Chars("account_number")) = Chars("Street Number")
  /\ CsvDescription(Chars("routing_number")) = Chars("Street Number")

\* ========================================================================
\* Free-Text Parser: parseText
\* ========================================================================

\* ---- JSON.parse on a text whose values are strings without escapes ----

\* The index of the quote that closes the JSON string opening at i, 0 when
\* no string stands there (no opening quote, no closing quote, or a control
\* character inside).
StringEnd(t, i) ==
  IF i > Len(t) \/ t[i] # "\"" THEN 0
  ELSE LET qs == {j \in (i + 1)..Len(t) : t[j] = "\""}
       IN  IF qs = {} THEN 0
           ELSE LET j == CHOOSE q \in qs : \A o \in qs : q <= o
                IN  IF \E n \in (i + 1)..(j - 1) : t[n] \in {"\t", "\n", "\r"}
                    THEN 0 ELSE j

\* What JSON.parse does: it throws (ok = FALSE) or returns an object.
JsonError == [ok |-> FALSE, entries |-> EmptyObject]

\* The members of an object from index i on, which holds the first character
\* of a member; acc is the object read so far.
RECURSIVE ReadMembers(_, _, _)
ReadMembers(t, i, acc) ==
  LET keyEnd == StringEnd(t, i)
      colon == SkipSpaces(t, keyEnd + 1)
      valueStart == SkipSpaces(t, colon + 1)
      valueEnd == StringEnd(t, valueStart)
      after == SkipSpaces(t, valueEnd + 1)
      object == Put(acc, SubSeq(t, i + 1, keyEnd - 1),
                    SubSeq(t, valueStart + 1, valueEnd - 1))
  IN  IF keyEnd = 0 \/ colon > Len(t) \/ t[colon] # ":" \/ valueEnd = 0
         \/ after > Len(t)
      THEN JsonError
      ELSE IF t[after] = "}"
      THEN IF after = Len(t) THEN [ok |-> TRUE, entries |-> object] ELSE JsonError
      ELSE IF t[after] = ","
      THEN ReadMembers(t, SkipSpaces(t, after + 1), object)
      ELSE JsonError

\* JSON.parse(t) for a trimmed text that starts with `{` and ends with `}`.
ParseJson(t) ==
  LET first == SkipSpaces(t, 2)
  IN  IF first = Len(t) THEN [ok |-> TRUE, entries |-> EmptyObject]
      ELSE ReadMembers(t, first, EmptyObject)

\* Object.assign(target, source): the entries of source in their order.
RECURSIVE Assign(_, _)
Assign(target, source) ==
  IF source = <<>> THEN target
  ELSE Assign(Put(target, Head(source).k, Head(source).v), Tail(source))

\* ---- The line matchers ----

\* What a matcher found in a line: the pairs it puts into fields.
LineNoMatch == [m |-> FALSE, pairs |-> <<>>]
LineMatches(pairs) == [m |-> TRUE, pairs |-> pairs]

\* trimmedLine.match(/^(.+?)\s*SEP\s*(.+)$/), then fields[key.trim()] =
\* value.trim(): the first separator that has a character before it and one
\* after it; the key group ends before the white space in front of the
\* separator, the value group starts after the white space behind it.
SeparatorMatch(line, sep) ==
  LET ps == {p \in 2..(Len(line) - 1) : line[p] = sep}
  IN  IF ps = {} THEN LineNoMatch
      ELSE LET p == CHOOSE q \in ps : \A o \in ps : q <= o
               key == TrimEnd(SubSeq(line, 1, p - 1))
               value == TrimStart(SubSeq(line, p + 1, Len(line)))
           IN  LineMatches(<<[k |-> Trim(key), v |-> Trim(value)]>>)

\* trimmedLine.startsWith('{') && trimmedLine.endsWith('}'), JSON.parse
JsonLineMatch(line) ==
  IF line # <<>> /\ Head(line) = "{" /\ line[Len(line)] = "}" /\ ParseJson(line).ok
  THEN LineMatches(ParseJson(line).entries)
  ELSE LineNoMatch

\* trimmedLine.includes('\t'), split('\t').map(p => p.trim()).filter(p => p)
TabMatch(line) ==
  LET split == Split(line, "\t")
      parts == SelectNonEmpty([i \in 1..Len(split) |-> Trim(split[i])])
  IN  IF (\E i \in 1..Len(line) : line[i] = "\t") /\ Len(parts) = 2
      THEN LineMatches(<<[k |-> parts[1], v |-> parts[2]]>>)
      ELSE LineNoMatch

\* The matchers in the order of the loop body.
Matchers == <<"colon", "equals", "dash", "pipe", "json", "tab">>

LineMatch(matcher, line) ==
  CASE matcher = "colon" -> SeparatorMatch(line, ":")
    [] matcher = "equals" -> SeparatorMatch(line, "=")
    [] matcher = "dash" -> SeparatorMatch(line, "-")
    [] matcher = "pipe" -> SeparatorMatch(line, "|")
    [] matcher = "json" -> JsonLineMatch(line)
    [] OTHER -> TabMatch(line)

\* The branch of the colon matcher does not end the iteration.
ContinuesExceptColon(matcher) == matcher # "colon"

\* The branch of every matcher ends with `continue`.
Continues(matcher) == TRUE

\* The body of the loop for one trimmed line, from the matchers ms on: the
\* fields it leaves and the matchers whose branch ran.
RECURSIVE TryMatchers(_, _, _, _)
TryMatchers(ms, line, acc, applied) ==
  IF ms = <<>> THEN [fields |-> acc, applied |-> applied]
  ELSE LET found == LineMatch(Head(ms), line) IN
       IF ~found.m THEN TryMatchers(Tail(ms), line, acc, applied)
       ELSE IF Continues(Head(ms))
       THEN [fields |-> Assign(acc, found.pairs), applied |-> Append(applied, Head(ms))]
       ELSE TryMatchers(Tail(ms), line, Assign(acc, found.pairs),
                        Append(applied, Head(ms)))

\* for (const line of lines)
RECURSIVE ParseLines(_, _)
ParseLines(lines, acc) ==
  IF lines = <<>> THEN acc
  ELSE IF Trim(Head(lines)) = <<>> THEN ParseLines(Tail(lines), acc)
  ELSE ParseLines(Tail(lines), TryMatchers(Matchers, Trim(Head(lines)), acc, <<>>).fields)

\* The fields of the lines are assigned over the entries of the object.
JsonBlockLinesLast(t, acc) ==
  LET whole == Trim(t)
  IN  IF whole # <<>> /\ Head(whole) = "{" /\ whole[Len(whole)] = "}"
         /\ ParseJson(whole).ok
      THEN Assign(ParseJson(whole).entries, acc)
      ELSE acc

\* The multi-line JSON block: when the whole trimmed text is a JSON object
\* its entries are assigned over the fields of the lines.
JsonBlock(t, acc) ==
  LET whole == Trim(t)
  IN  IF whole # <<>> /\ Head(whole) = "{" /\ whole[Len(whole)] = "}"
         /\ ParseJson(whole).ok
      THEN Assign(acc, ParseJson(whole).entries)
      ELSE acc

\* rowCount is the number of headers.
TextResultCountsHeaders(acc) ==
  [headers |-> Keys(acc), rows |-> <<CopyRow(acc, EmptyObject)>>,
   rowCount |-> Len(Keys(acc))]

\* const headers = Object.keys(fields); row[header] = fields[header]
TextResult(acc) ==
  [headers |-> Keys(acc), rows |-> <<CopyRow(acc, EmptyObject)>>, rowCount |-> 1]

\* parseText(text) for a string
parseText(t) == TextResult(JsonBlock(t, ParseLines(Split(t, "\n"), EmptyObject)))

\* The canonical text of a result: one `Key: Value` line per header.
Canonical(r) ==
  Join([i \in 1..Len(r.headers) |->
          r.headers[i] \o <<":", " ">> \o Get(r.rows[1], r.headers[i])],
       <<"\n">>)

\* ---- The texts parseText is explored on ----

\* Each stream is a text, line by line; parseText is run on every run of at
\* most MaxTextLines consecutive lines of a stream.
TextStreams ==
  << \* the labelled lines of a form, with a blank line and a colon without space
     << Chars("Name: Jane Doe"), Chars("Email: jane@x.com"), <<>>,
        Chars("Phone:555-1234"), Chars("  City :  New  York  "),
        Chars("name: J"), Chars("Name: K") >>,
     \* one line for each matcher, lines with several separators, lines
     \* without a match
     << Chars("City = Paris"), Chars("Zip-75001"), Chars("Role | Admin"),
        Chars("Job\tHead Chef"), Chars("a=b: c"), Chars("x - y = z"),
        Chars("no separator"), Chars("   "), Chars(":lead"), Chars("trail:"),
        Chars("{}"), Chars("{ }"), Chars("{a\tb}"), Chars("a\tb\tc"),
        Chars("\tq\tr\t"), Chars("Total  42") >>,
     \* keys that are array indices
     << Chars("b: x"), Chars("7: y"), Chars("10: z"), Chars("2: w"),
        Chars("07: v") >>,
     \* JSON objects on one line
     << Chars("{\"a\": \"b\"}"), Chars("{\"a\"=\"b\"}"), Chars("{\"a:b\": \"c\"}"),
        Chars("{\"k\": \"\"}"), Chars("{\"a\": \"b\", \"c\": \"d\"}"),
        Chars("a: z") >>,
     \* a JSON object over several lines
     << Chars("{"), Chars("  \"Name\": \"Ann\","), Chars("  \"Role\": \"Chef\""),
        Chars("}"), Chars("Age: 30") >>,
     \* a JSON object over three lines, the second of which the tab matcher
     \* reads as the key `,`, which is a key of the object too
     << Chars("{\"a\": \"y\""), Chars(",\t\",\":"), Chars("\"x\"}") >> >>

Min(a, b) == IF a <= b THEN a ELSE b

Texts ==
  UNION { UNION { { Join(SubSeq(TextStreams[s], from, to), <<"\n">>) :
                      to \in (from - 1)..Min(from + MaxTextLines - 1,
                                             Len(TextStreams[s])) } :
                  from \in 1..Len(TextStreams[s]) } :
          s \in 1..Len(TextStreams) }

\* ---- One call of parseText, line by line ----

TextInit ==
  /\ PollIdle
  /\ ExtractIdle
  /\ RouteIdle
  /\ MapIdle
  /\ CsvIdle
  /\ OtherIdle
  /\ inputText \in Texts
  /\ pending = Split(inputText, "\n")
  /\ lineFields = EmptyObject
  /\ trace = <<>>
  /\ tpc = "lines"
  /\ textResult = NoTextResult
  /\ reparsed = NoTextResult
  /\ heuristic = NotCompared

\* if (!trimmedLine) continue
SkipBlankLine ==
  /\ tpc = "lines"
  /\ pending # <<>>
  /\ Trim(Head(pending)) = <<>>
  /\ pending' = Tail(pending)
  /\ UNCHANGED <<inputText, lineFields, trace, tpc, textResult, reparsed, heuristic>>
  /\ UNCHANGED nonTextVars

\* One iteration of the loop for a line that is not blank.
ParseLine ==
  /\ tpc = "lines"
  /\ pending # <<>>
  /\ Trim(Head(pending)) # <<>>
  /\ LET line == Trim(Head(pending))
         tried == TryMatchers(Matchers, line, lineFields, <<>>)
     IN  /\ lineFields' = tried.fields
         /\ trace' = Append(trace, [line |-> line, applied |-> tried.applied,
                                    before |-> lineFields, after |-> tried.fields])
  /\ pending' = Tail(pending)
  /\ UNCHANGED <<inputText, tpc, textResult, reparsed, heuristic>>
  /\ UNCHANGED nonTextVars

\* After the loop: the JSON block, then the result.
ReturnText ==
  /\ tpc = "lines"
  /\ pending = <<>>
  /\ lineFields' = JsonBlock(inputText, lineFields)
  /\ textResult' = TextResult(JsonBlock(inputText, lineFields))
  /\ tpc' = "done"
  /\ UNCHANGED <<inputText, pending, trace, reparsed, heuristic>>
  /\ UNCHANGED nonTextVars

\* parseText is called on the canonical text of a result that has fields.
ParseCanonical ==
  /\ tpc = "done"
  /\ textResult.headers # <<>>
  /\ reparsed' = parseText(Canonical(textResult))
  /\ tpc' = "reparsed"
  /\ UNCHANGED <<inputText, pending, lineFields, trace, textResult, heuristic>>
  /\ UNCHANGED nonTextVars

\* The loop of parseFieldsFromText on the same text, line by line: what one
\* iteration puts into fields that were empty.
HeuristicLines ==
  /\ tpc \in {"done", "reparsed"}
  /\ ~heuristic.ran
  /\ heuristic' =
       [ran |-> TRUE,
        lines |-> [n \in 1..Len(TrimmedLines(inputText)) |->
                     ParseFieldLines(<<TrimmedLines(inputText)[n]>>, EmptyObject)]]
  /\ UNCHANGED <<inputText, pending, lineFields, trace, tpc, textResult, reparsed>>
  /\ UNCHANGED nonTextVars

TextNext ==
  SkipBlankLine \/ ParseLine \/ ReturnText \/ ParseCanonical \/ HeuristicLines

TextSpec == TextInit /\ [][TextNext]_vars

\* ---- Properties of parseText ----

\* The stepwise call returns what parseText computes.
TextStepsAgree == tpc \in {"done", "reparsed"} => textResult = parseText(inputText)

\* The matchers that match a line.
Matching(line) == {i \in 1..Len(Matchers) : LineMatch(Matchers[i], line).m}

\* C16: for each non-blank line the loop applies at most one matcher, which
\* is the first one in the order colon, equals, dash, pipe, single-line
\* JSON, two-column tab that matches the line; only its pairs are put into
\* fields, and a line that no matcher matches leaves fields as they were.
C16_FirstMatcherOnly ==
  \A n \in 1..Len(trace) :
    LET e == trace[n]
        ms == Matching(e.line)
    IN  /\ Len(e.applied) <= 1
        /\ ms = {} => e.applied = <<>> /\ e.after = e.before
        /\ ms # {} =>
             LET first == CHOOSE i \in ms : \A j \in ms : i <= j
             IN  /\ e.applied = <<Matchers[first]>>
                 /\ e.after = Assign(e.before, LineMatch(Matchers[first], e.line).pairs)

\* A line with a colon and an equals sign went to the colon matcher alone,
\* and a line without a match left the fields of the lines before it alone.
C16_Witness ==
  /\ \E n \in 1..Len(trace) :
       /\ Cardinality(Matching(trace[n].line)) >= 2
       /\ trace[n].applied = <<"colon">>
  /\ \E n \in 1..Len(trace) :
       trace[n].applied = <<>> /\ trace[n].before # EmptyObject
\* The value a result has under a header.
ValueOf(r, h) == Get(r.rows[1], h)

\* C17: when parseText has extracted at least one field, parsing the
\* canonical text of its result (one `Key: Value` line per header, in header
\* order) gives the same headers and the same value for every header.
C17_CanonicalIdempotent ==
  tpc = "reparsed" =>
    /\ reparsed.headers = textResult.headers
    /\ \A i \in 1..Len(textResult.headers) :
         ValueOf(reparsed, textResult.headers[i])
           = ValueOf(textResult, textResult.headers[i])

\* The line `{"a"="b"}` gives one field; its canonical text `{"a": "b"}` is
\* a JSON object, and parsing it gives a second field `a`.
C17_ReparseAddsField ==
  /\ tpc = "reparsed"
  /\ inputText = Chars("{\"a\"=\"b\"}")
  /\ textResult.headers = <<Chars("{\"a\"")>>
  /\ reparsed.headers = <<Chars("{\"a\""), Chars("a")>>

\* A field with an empty value, which only a JSON object can give, is lost:
\* its canonical line ends with the colon and matches nothing.
C17_ReparseLosesField ==
  /\ tpc = "reparsed"
  /\ HasKey(textResult.rows[1], Chars("k"))
  /\ ValueOf(textResult, Chars("k")) = <<>>
  /\ ~HasKey(reparsed.rows[1], Chars("k"))
\* ---- The order of the headers ----

\* The keys in the order in which they first appear.
RECURSIVE FirstAppearance(_, _)
FirstAppearance(keys, seen) ==
  IF keys = <<>> THEN <<>>
  ELSE IF Head(keys) \in seen THEN FirstAppearance(Tail(keys), seen)
  ELSE <<Head(keys)>> \o FirstAppearance(Tail(keys), seen \cup {Head(keys)})

\* The keys the lines of the text gave, line by line.
RECURSIVE LineKeys(_)
LineKeys(entries) ==
  IF entries = <<>> THEN <<>>
  ELSE (IF Head(entries).applied = <<>> THEN <<>>
        ELSE Keys(LineMatch(Head(entries).applied[1], Head(entries).line).pairs))
       \o LineKeys(Tail(entries))

\* The keys of the text as one JSON object, if it is one.
BlockKeys ==
  LET whole == Trim(inputText)
  IN  IF whole # <<>> /\ Head(whole) = "{" /\ whole[Len(whole)] = "}"
         /\ ParseJson(whole).ok
      THEN Keys(ParseJson(whole).entries)
      ELSE <<>>

\* All keys of the text in the order in which the parser meets them.
KeysInTextOrder == FirstAppearance(LineKeys(trace) \o BlockKeys, {})

\* The array-index keys of a set in ascending numeric order.
RECURSIVE Ascending(_)
Ascending(S) ==
  IF S = {} THEN <<>>
  ELSE LET least == CHOOSE k \in S : \A o \in S : IndexValue(k) <= IndexValue(o)
       IN  <<least>> \o Ascending(S \ {least})

\* The keys of a sequence that are (not) array indices, in their order.
RECURSIVE SelectKeys(_, _)
SelectKeys(keys, index) ==
  IF keys = <<>> THEN <<>>
  ELSE (IF IsArrayIndex(Head(keys)) = index THEN <<Head(keys)>> ELSE <<>>)
       \o SelectKeys(Tail(keys), index)

\* The text without its blank lines.
RECURSIVE SelectNonBlank(_)
SelectNonBlank(lines) ==
  IF lines = <<>> THEN <<>>
  ELSE (IF Trim(Head(lines)) = <<>> THEN <<>> ELSE <<Head(lines)>>)
       \o SelectNonBlank(Tail(lines))

WithoutBlankLines(t) == Join(SelectNonBlank(Split(t, "\n")), <<"\n">>)

\* The line is the key, white space, the separator, white space and the
\* value, where neither key nor value starts or ends with white space.
IsKeySepValue(line, key, sep, value) ==
  /\ key # <<>> /\ value # <<>>
  /\ Trim(key) = key /\ Trim(value) = value
  /\ Len(key) + 1 + Len(value) <= Len(line)
  /\ SubSeq(line, 1, Len(key)) = key
  /\ SubSeq(line, Len(line) - Len(value) + 1, Len(line)) = value
  /\ \E p \in (Len(key) + 1)..(Len(line) - Len(value)) :
       /\ line[p] = sep
       /\ \A i \in (Len(key) + 1)..(Len(line) - Len(value)) :
            i # p => IsSpace(line[i])

SeparatorOf(matcher) ==
  CASE matcher = "colon" -> ":"
    [] matcher = "equals" -> "="
    [] matcher = "dash" -> "-"
    [] OTHER -> "|"

\* Blank lines change nothing, and what a separator matcher puts into fields
\* is the text before the separator under the text after it, both without
\* their outer white space and otherwise as they stand in the line.
LinesReadVerbatim ==
  /\ textResult = parseText(WithoutBlankLines(inputText))
  /\ \A n \in 1..Len(trace) :
       LET e == trace[n] IN
       e.applied # <<>> /\ e.applied[1] \in {"colon", "equals", "dash", "pipe"} =>
         \E i \in 1..Len(e.after) :
           IsKeySepValue(e.line, e.after[i].k, SeparatorOf(e.applied[1]), e.after[i].v)

ExampleText ==
  Join(<<Chars("Name: Jane Doe"), Chars("Email: jane@x.com"), <<>>,
         Chars("Phone:555-1234")>>, <<"\n">>)

ExampleResult ==
  [headers |-> <<Chars("Name"), Chars("Email"), Chars("Phone")>>,
   rows |-> << <<Entry("Name", "Jane Doe"), Entry("Email", "jane@x.com"),
                 Entry("Phone", "555-1234")>> >>,
   rowCount |-> 1]

ExampleHolds == inputText = ExampleText => textResult = ExampleResult

\* C18: parseText ignores blank lines, trims keys and values and keeps
\* their case and inner spacing, reads `Phone:555-1234` as Phone with value
\* 555-1234, and lists the headers in the order in which their keys first
\* appear in the text.
C18_HeadersInTextOrder ==
  tpc \in {"done", "reparsed"} =>
    /\ LinesReadVerbatim
    /\ ExampleHolds
    /\ textResult.headers = KeysInTextOrder

\* C18 as the code has it: the headers are the keys that are array indices
\* (decimal numbers without leading zero) in ascending numeric order, then
\* the other keys in the order in which they first appear in the text.
C18_Amended ==
  tpc \in {"done", "reparsed"} =>
    /\ LinesReadVerbatim
    /\ ExampleHolds
    /\ textResult.headers =
         Ascending({k \in {KeysInTextOrder[i] : i \in 1..Len(KeysInTextOrder)} :
                      IsArrayIndex(k)})
         \o SelectKeys(KeysInTextOrder, FALSE)

\* A text where the key `7` comes after the key `b` has been parsed, and
\* `7` is the first header.
C18_Witness ==
  /\ tpc = "done"
  /\ KeysInTextOrder = <<Chars("b"), Chars("7")>>
  /\ textResult.headers = <<Chars("7"), Chars("b")>>

\* The example text has been parsed.
ExampleParsed == tpc = "done" /\ inputText = ExampleText /\ textResult = ExampleResult
\* ---- JSON in the text ----

\* The text is a JSON object.
IsJsonObject(t) ==
  t # <<>> /\ Head(t) = "{" /\ t[Len(t)] = "}" /\ ParseJson(t).ok

\* The object a JSON text denotes.
JsonObject(t) == Assign(EmptyObject, ParseJson(t).entries)

\* C23: a non-blank line that is a JSON object has the keys and values of
\* that object merged into the fields, and nothing else.
C23_JsonLineMerged ==
  \A n \in 1..Len(trace) :
    IsJsonObject(trace[n].line) =>
      trace[n].after = Assign(trace[n].before, ParseJson(trace[n].line).entries)

\* A text of several lines has been parsed, one of which is a JSON object
\* with the key `a`: the colon matcher took the line, the result has the
\* text before the colon as a header and no header `a`.
C23_JsonLineTakenByColon ==
  /\ tpc = "done"
  /\ Len(trace) >= 2
  /\ \E n \in 1..Len(trace) :
       /\ IsJsonObject(trace[n].line)
       /\ HasKey(JsonObject(trace[n].line), Chars("a"))
       /\ trace[n].applied = <<"colon">>
       /\ HasKey(trace[n].after, Chars("{\"a\""))
  /\ ~HasKey(textResult.rows[1], Chars("a"))

\* The fields after the line loop, before the JSON block.
FieldsOfLines == IF trace = <<>> THEN EmptyObject ELSE trace[Len(trace)].after

\* C24: when the whole trimmed text is a JSON object, the returned row has
\* every key of the object with the object's value, also where a line gave
\* the same key another value, and besides them the fields of the lines.
C24_WholeJsonMergedLast ==
  tpc \in {"done", "reparsed"} /\ IsJsonObject(Trim(inputText)) =>
    LET object == JsonObject(Trim(inputText))
        returned == textResult.rows[1]
    IN  /\ \A i \in 1..Len(object) :
             HasKey(returned, object[i].k) /\ Get(returned, object[i].k) = object[i].v
        /\ \A i \in 1..Len(FieldsOfLines) :
             ~HasKey(object, FieldsOfLines[i].k) =>
               /\ HasKey(returned, FieldsOfLines[i].k)
               /\ Get(returned, FieldsOfLines[i].k) = FieldsOfLines[i].v
        /\ \A i \in 1..Len(returned) :
             HasKey(object, returned[i].k) \/ HasKey(FieldsOfLines, returned[i].k)

\* A text that is a JSON object has been parsed, a line of it gave a key of
\* the object another value, and the returned row has the object's value.
C24_Witness ==
  /\ tpc = "done"
  /\ IsJsonObject(Trim(inputText))
  /\ \E i \in 1..Len(FieldsOfLines) :
       LET key == FieldsOfLines[i].k
           object == JsonObject(Trim(inputText))
       IN  /\ HasKey(object, key)
           /\ Get(object, key) # FieldsOfLines[i].v
           /\ Get(textResult.rows[1], key) = Get(object, key)

\* ---- The line matchers of parseFieldsFromText and of parseText ----

\* What the line matchers of parseText take from one line.
TextLineFields(e) ==
  IF e.applied = <<>> THEN EmptyObject
  ELSE Assign(EmptyObject, LineMatch(e.applied[1], e.line).pairs)

\* C25: from every line parseFieldsFromText takes the key and value that
\* the line matchers of parseText take from it, and nothing from a line
\* that parseText does not match.
C25_SameLineMatchers ==
  heuristic.ran =>
    /\ Len(heuristic.lines) = Len(trace)
    /\ \A n \in 1..Len(trace) : heuristic.lines[n] = TextLineFields(trace[n])

\* The line `City = Paris` has been read by both: parseText has the value
\* `Paris`, parseFieldsFromText the value `= Paris`.
C25_MatchersDiffer ==
  /\ heuristic.ran
  /\ \E n \in 1..Len(trace) :
       /\ trace[n].line = Chars("City = Paris")
       /\ TextLineFields(trace[n]) = <<Entry("City", "Paris")>>
       /\ heuristic.lines[n] = <<Entry("City", "= Paris")>>

\* parseFieldsFromText takes a field from a line that parseText does not match.
HeuristicTakesMore ==
  /\ heuristic.ran
  /\ \E n \in 1..Len(trace) :
       /\ trace[n].line = Chars("Total  42")
       /\ trace[n].applied = <<>>
       /\ heuristic.lines[n] = <<Entry("Total", "42")>>

\* ========================================================================
\* Tabular Parser: parseCSV
\* ========================================================================

\* ---- Papa.parse(fileContent, {header: true, skipEmptyLines: true}) for
\* ---- comma-delimited content without quotes and with "\n" line ends

FieldMismatch(code, r) == [type |-> "FieldMismatch", code |-> code, row |-> r]

\* The error of the decoder when it cannot tell the delimiter.
UndetectableDelimiter ==
  [type |-> "Delimiter", code |-> "UndetectableDelimiter", row |-> -1]

\* skipEmptyLines: true drops the lines without any character.
NonEmptyLines(content) == SelectNonEmpty(Split(content, "\n"))

Cells(line) == Split(line, ",")

\* The number of cells of all lines together.
RECURSIVE CellCount(_)
CellCount(lines) ==
  IF lines = <<>> THEN 0 ELSE Len(Cells(Head(lines))) + CellCount(Tail(lines))

\* The decoder takes a delimiter when the lines have more than 1.99 fields
\* on average with it.
DelimiterFound(lines) == lines # <<>> /\ 100 * CellCount(lines) > 199 * Len(lines)

\* The object of a data line: a cell under the header field of its column,
\* the cells beyond the header under `__parsed_extra` (joined here).
RECURSIVE RowObject(_, _, _, _)
RowObject(names, cells, j, acc) ==
  IF j > Len(cells) THEN acc
  ELSE IF j > Len(names)
  THEN Put(acc, Chars("__parsed_extra"), Join(SubSeq(cells, j, Len(cells)), <<",">>))
  ELSE RowObject(names, cells, j + 1, Put(acc, names[j], cells[j]))

RowErrors(names, cells, r) ==
  IF Len(cells) < Len(names) THEN <<FieldMismatch("TooFewFields", r)>>
  ELSE IF Len(cells) > Len(names) THEN <<FieldMismatch("TooManyFields", r)>>
  ELSE <<>>

\* results.data and the field errors for the data lines from number r on.
RECURSIVE DecodeRows(_, _, _)
DecodeRows(names, lines, r) ==
  IF lines = <<>> THEN [data |-> <<>>, errors |-> <<>>]
  ELSE LET rest == DecodeRows(names, Tail(lines), r + 1)
           cells == Cells(Head(lines))
       IN  [data |-> <<RowObject(names, cells, 1, EmptyObject)>> \o rest.data,
            errors |-> RowErrors(names, cells, r) \o rest.errors]

\* results of Papa.parse; fields is <<names>>, or <<>> for meta.fields
\* undefined (no header line).
PapaParse(content) ==
  LET lines == NonEmptyLines(content)
      guess == IF DelimiterFound(lines) THEN <<>> ELSE <<UndetectableDelimiter>>
  IN  IF lines = <<>> THEN [data |-> <<>>, errors |-> guess, fields |-> <<>>]
      ELSE LET body == DecodeRows(Cells(Head(lines)), Tail(lines), 0)
           IN  [data |-> body.data,
                errors |-> guess \o body.errors,
                fields |-> <<Cells(Head(lines))>>]

\* The complete callback resolves whatever the errors are.
HasErrorsNever(results) == FALSE

\* results.errors.length > 0
HasErrors(results) == Len(results.errors) > 0

ParseErrors == "CSV parsing errors"
ReadFailed == "Failed to read CSV file"

\* resolve({headers: results.meta.fields || [], rows: results.data,
\*          rowCount: results.data.length})
CsvResolution(results) ==
  [headers |-> IF results.fields = <<>> THEN <<>> ELSE results.fields[1],
   rows |-> results.data,
   rowCount |-> Len(results.data)]

\* ---- The files parseCSV is explored on ----

\* Header lines with distinct field names.
HeaderLines == {Chars("name,zip"), Chars("id"), Chars("7,b,a")}

\* Lines after the header: full rows, the empty line, short and long rows,
\* a line of white space, a row of empty cells.
DataLinePool ==
  {Chars("Ann,1"), Chars("Bob,2"), <<>>, Chars("Cy"), Chars("Di,3,x"),
   Chars(" "), Chars(","), Chars("x,y,z")}

RECURSIVE LineSeqs(_)
LineSeqs(n) ==
  IF n = 0 THEN {<<>>}
  ELSE LineSeqs(n - 1) \cup {Append(ls, l) : ls \in LineSeqs(n - 1), l \in DataLinePool}

\* The empty file and the files of a header line and at most MaxCsvLines
\* lines after it.
CsvFiles ==
  {<<>>} \cup {Join(<<h>> \o ls, <<"\n">>) : h \in HeaderLines, ls \in LineSeqs(MaxCsvLines)}

\* ---- One call of parseCSV ----

CsvInit ==
  /\ PollIdle
  /\ ExtractIdle
  /\ RouteIdle
  /\ MapIdle
  /\ TextIdle
  /\ OtherIdle
  /\ csvContent \in CsvFiles
  /\ csvReadable \in BOOLEAN
  /\ cpc = "read"
  /\ decoded = NoDecoding
  /\ csvResult = NoTextResult
  /\ csvError = ""

\* const fileContent = await fs.readFile(filePath, 'utf8')
ReadCsv ==
  /\ cpc = "read"
  /\ IF csvReadable
     THEN cpc' = "parse" /\ UNCHANGED csvError
     ELSE cpc' = "done" /\ csvError' = ReadFailed
  /\ UNCHANGED <<csvContent, csvReadable, decoded, csvResult>>
  /\ UNCHANGED nonCsvVars

\* Papa.parse with its complete callback, which is called before it returns.
ParseCsv ==
  /\ cpc = "parse"
  /\ decoded' = PapaParse(csvContent)
  /\ IF HasErrors(PapaParse(csvContent))
     THEN csvError' = ParseErrors /\ UNCHANGED csvResult
     ELSE csvResult' = CsvResolution(PapaParse(csvContent)) /\ UNCHANGED csvError
  /\ cpc' = "done"
  /\ UNCHANGED <<csvContent, csvReadable>>
  /\ UNCHANGED nonCsvVars

CsvNext == ReadCsv \/ ParseCsv

CsvSpec == CsvInit /\ [][CsvNext]_vars

\* ---- Properties of parseCSV ----

\* The fields of the header line and the lines after it that are not empty.
HeaderLineFields == Cells(Head(NonEmptyLines(csvContent)))
DataLines == Tail(NonEmptyLines(csvContent))

\* The promise is resolved with the header line's fields and a row for
\* every data line, which has the line's cells under the header fields.
ResolvedInFull ==
  /\ csvError = ""
  /\ NonEmptyLines(csvContent) # <<>>
  /\ csvResult.headers = HeaderLineFields
  /\ csvResult.rowCount = Len(DataLines)
  /\ Len(csvResult.rows) = Len(DataLines)
  /\ \A i \in 1..Len(DataLines) :
       /\ Len(Cells(DataLines[i])) = Len(HeaderLineFields)
       /\ \A j \in 1..Len(HeaderLineFields) :
            Get(csvResult.rows[i], HeaderLineFields[j]) = Cells(DataLines[i])[j]

\* C20: a call of parseCSV that has read its file either resolves with the
\* header line's fields, in order, as headers and one row per non-empty data
\* line, and then the decoder reported no error, or rejects with the parse
\* error and no result, and then the decoder reported an error.
C20_ResolveInFullOrReject ==
  cpc = "done" /\ csvReadable =>
    \/ decoded.errors = <<>> /\ ResolvedInFull
    \/ decoded.errors # <<>> /\ csvError = ParseErrors /\ csvResult = NoTextResult

\* A file with two data lines and an empty line between them is resolved
\* with two rows.
C20_Witness ==
  /\ cpc = "done"
  /\ csvContent = Join(<<Chars("name,zip"), Chars("Ann,1"), <<>>, Chars("Bob,2")>>, <<"\n">>)
  /\ csvResult.rowCount = 2
  /\ csvResult.headers = <<Chars("name"), Chars("zip")>>

\* A file with a short data line is rejected although its other line decodes.
RejectedForShortLine ==
  /\ cpc = "done"
  /\ csvContent = Join(<<Chars("name,zip"), Chars("Ann,1"), Chars("Cy")>>, <<"\n">>)
  /\ csvError = ParseErrors
  /\ Len(decoded.data) = 2
\* ========================================================================
\* The three parsers and the shape of their results
\* ========================================================================

\* One call of one of parsePDF, parseText and parseCSV.
ParseInit == ExtractInit \/ TextInit \/ CsvInit

ParseNext == ExtractNext \/ TextNext \/ CsvNext

ParseSpec == ParseInit /\ [][ParseNext]_vars

\* rowCount is the number of rows and every key of a row is a header.
IsTabular(r) ==
  /\ r.rowCount = Len(r.rows)
  /\ \A i \in 1..Len(r.rows) :
       \A j \in 1..Len(r.rows[i]) :
         \E h \in 1..Len(r.headers) : r.headers[h] = r.rows[i][j].k

\* C19: every result of parseCSV, of parseText and of parsePDF has rowCount
\* equal to the number of its rows and only headers as keys of its rows; a
\* result of parseText or of parsePDF has exactly one row, with or without
\* fields.
C19_TabularResults ==
  /\ parsed.state = "returned" =>
       IsTabular(parsed.data) /\ Len(parsed.data.rows) = 1
  /\ tpc \in {"done", "reparsed"} =>
       IsTabular(textResult) /\ Len(textResult.rows) = 1
  /\ tpc = "reparsed" =>
       IsTabular(reparsed) /\ Len(reparsed.rows) = 1
  /\ cpc = "done" /\ csvError = "" => IsTabular(csvResult)

\* parseText has returned for a text without any field: no header, one row.
C19_Witness ==
  /\ tpc = "done"
  /\ inputText # <<>>
  /\ textResult.headers = <<>>
  /\ textResult.rows = <<EmptyObject>>
  /\ textResult.rowCount = 1

\* parseCSV has resolved with two rows, parsePDF has returned a row of fields.
CsvRowsReturned == cpc = "done" /\ csvError = "" /\ csvResult.rowCount = 2
PdfRowReturned == parsed.state = "returned" /\ parsed.data.headers # <<>>
\* ========================================================================
\* Remote OCR extraction: extractWithOCR, step by step
\* ========================================================================

\* const maxAttempts = 60
OcrMaxAttempts == 60

\* setTimeout(resolve, 3000)
OcrIntervalMs == 3000

\* Variant: the loop test lets one more iteration through.
OcrLoopGuardInclusive(a) == a <= OcrMaxAttempts

\* while (attempts < maxAttempts)
OcrLoopGuard(a) == a < OcrMaxAttempts

\* statusResponse.data.status === 'complete' || ... === 'completed'
OcrIsComplete(s) == s = "complete" \/ s = "completed"

\* statusResponse.data.status === 'failed' || ... === 'error'
OcrIsFailed(s) == s = "failed" \/ s = "error"

\* The class a loop puts a status in.
OcrClass(s) ==
  IF OcrIsComplete(s) THEN "complete" ELSE IF OcrIsFailed(s) THEN "failed" ELSE "pending"

FillClass(s) ==
  IF IsComplete(s) THEN "complete" ELSE IF IsFailed(s) THEN "failed" ELSE "pending"

\* The bookkeeping of a poll that was answered with status s.
Polled(s) ==
  /\ ocrPolls' = ocrPolls + 1
  /\ ocrStatus' = s
  /\ ocrTerminalAt' = IF ocrTerminalAt = 0 /\ OcrClass(s) # "pending"
                      THEN ocrPolls + 1 ELSE ocrTerminalAt
  /\ fillTerminalAt' = IF fillTerminalAt = 0 /\ FillClass(s) # "pending"
                       THEN ocrPolls + 1 ELSE fillTerminalAt

\* State after construction: extractWithOCR(pdfPath, apiKey) has been entered.
OcrInit ==
  /\ PollIdle
  /\ ExtractIdle
  /\ RouteIdle
  /\ DataIdle
  /\ ServeIdle
  /\ PreviewIdle
  /\ AppIdle
  /\ ocrKey \in {NoVal, "", "key"}
  /\ opc = "start"
  /\ ocrAttempts = 0
  /\ ocrPolls = 0
  /\ ocrElapsed = 0
  /\ ocrStatus = "<no poll yet>"
  /\ ocrTerminalAt = 0
  /\ fillTerminalAt = 0
  /\ ocrReturned = EmptyObject

\* if (!apiKey) return {}
OcrSkip ==
  /\ opc = "start"
  /\ ~Truthy(ocrKey)
  /\ opc' = "done"
  /\ UNCHANGED <<ocrKey, ocrAttempts, ocrPolls, ocrElapsed, ocrStatus,
                 ocrTerminalAt, fillTerminalAt, ocrReturned>>
  /\ UNCHANGED nonOcrVars

\* await axios.post(...): the submission is accepted, or it fails and the
\* catch returns {}.
OcrSubmit(ok) ==
  /\ opc = "start"
  /\ Truthy(ocrKey)
  /\ opc' = IF ok THEN "loop" ELSE "done"
  /\ UNCHANGED <<ocrKey, ocrAttempts, ocrPolls, ocrElapsed, ocrStatus,
                 ocrTerminalAt, fillTerminalAt, ocrReturned>>
  /\ UNCHANGED nonOcrVars

\* The loop test holds: await new Promise(resolve => setTimeout(resolve, 3000))
OcrWait ==
  /\ opc = "loop"
  /\ OcrLoopGuard(ocrAttempts)
  /\ ocrElapsed' = ocrElapsed + OcrIntervalMs
  /\ opc' = "poll"
  /\ UNCHANGED <<ocrKey, ocrAttempts, ocrPolls, ocrStatus, ocrTerminalAt,
                 fillTerminalAt, ocrReturned>>
  /\ UNCHANGED nonOcrVars

\* The loop test fails: return {}
OcrTimeout ==
  /\ opc = "loop"
  /\ ~OcrLoopGuard(ocrAttempts)
  /\ opc' = "done"
  /\ UNCHANGED <<ocrKey, ocrAttempts, ocrPolls, ocrElapsed, ocrStatus,
                 ocrTerminalAt, fillTerminalAt, ocrReturned>>
  /\ UNCHANGED nonOcrVars

\* await axios.get(...) fails: the catch returns {}
OcrPollError ==
  /\ opc = "poll"
  /\ ocrPolls' = ocrPolls + 1
  /\ opc' = "done"
  /\ UNCHANGED <<ocrKey, ocrAttempts, ocrElapsed, ocrStatus, ocrTerminalAt,
                 fillTerminalAt, ocrReturned>>
  /\ UNCHANGED nonOcrVars

\* The poll is answered with 'complete' or 'completed': return fields
OcrPollComplete(s, detected) ==
  /\ opc = "poll"
  /\ OcrIsComplete(s)
  /\ Polled(s)
  /\ ocrReturned' = DetectedToFields(detected, EmptyObject)
  /\ opc' = "done"
  /\ UNCHANGED <<ocrKey, ocrAttempts, ocrElapsed>>
  /\ UNCHANGED nonOcrVars

\* The poll is answered with 'failed' or 'error': return {}
OcrPollFailed(s) ==
  /\ opc = "poll"
  /\ ~OcrIsComplete(s)
  /\ OcrIsFailed(s)
  /\ Polled(s)
  /\ opc' = "done"
  /\ UNCHANGED <<ocrKey, ocrAttempts, ocrElapsed, ocrReturned>>
  /\ UNCHANGED nonOcrVars

\* The poll is answered with any other status: attempts++
OcrPollPending(s) ==
  /\ opc = "poll"
  /\ ~OcrIsComplete(s)
  /\ ~OcrIsFailed(s)
  /\ Polled(s)
  /\ ocrAttempts' = ocrAttempts + 1
  /\ opc' = "loop"
  /\ UNCHANGED <<ocrKey, ocrElapsed, ocrReturned>>
  /\ UNCHANGED nonOcrVars

OcrNext ==
  \/ OcrSkip
  \/ \E ok \in BOOLEAN : OcrSubmit(ok)
  \/ OcrWait
  \/ OcrTimeout
  \/ OcrPollError
  \/ \E s \in StatusValues, detected \in OcrDetected : OcrPollComplete(s, detected)
  \/ \E s \in StatusValues : OcrPollFailed(s)
  \/ \E s \in StatusValues : OcrPollPending(s)

OcrSpec == OcrInit /\ [][OcrNext]_vars

\* Every step of the call is eventually taken: the remote answers every
\* request (or the request fails) and every timer fires.
FairOcrSpec == OcrSpec /\ WF_vars(OcrNext)

\* ---- Properties of extractWithOCR ----

C28_SameStatusClasses ==
  /\ OcrClass(ocrStatus) = FillClass(ocrStatus)
  /\ ocrTerminalAt = fillTerminalAt

\* The status 'finished' has been polled: the fill loop ends on it, the
\* loop of extractWithOCR has counted the attempt and goes on.
C28_FinishedIsPending ==
  /\ ocrStatus = "finished"
  /\ opc = "loop"
  /\ ocrAttempts = 1
  /\ fillTerminalAt = 1
  /\ ocrTerminalAt = 0
\* ---- Errors inside the extraction strategies ----

ParseFailed == "Failed to parse PDF: PDF read error"

\* The document cannot be loaded as a form: no form field, and the
\* structural pairing comes next.
FormErrorSkipped ==
  epc # "form" /\ Started("form-fields") /\ ~doc.form.loadOk =>
    formFields = EmptyObject /\ (epc = "pdf2json" \/ Started("pdf2json"))

\* pdf2json reports an error: no pair, and the free-text method comes next.
JsonErrorSkipped ==
  epc # "pdf2json" /\ Started("pdf2json") /\ doc.json.error =>
    structuredData = EmptyObject /\ (epc = "text" \/ Started("text-extraction"))

\* C27: an error inside a strategy counts as that strategy finding no field:
\* the next strategy is started and parsePDF does not fail.  The strategies
\* fail when the document cannot be loaded as a form, when pdf2json reports
\* an error, when the file cannot be read as text, and when the remote read
\* fails.
C27_StrategyErrorsYieldNoFields ==
  /\ parsed.state # ParseFailed
  /\ FormErrorSkipped
  /\ JsonErrorSkipped
  /\ epc = "done" /\ Started("text-extraction") /\ ~doc.text.readOk =>
       /\ textFields = EmptyObject
       /\ parsed.state = "returned"
       /\ Truthy(apiKey) => Started("datalab-ocr")

\* The text of a document could not be read: parsePDF has failed, and with
\* a key at hand the remote read was not started.
C27_TextErrorFailsParse ==
  /\ epc = "done"
  /\ ~doc.text.readOk
  /\ Truthy(apiKey)
  /\ parsed.state = ParseFailed
  /\ Started("text-extraction")
  /\ ~Started("datalab-ocr")

\* ========================================================================
\* The parse, download and preview handlers (routes/formFilling.js)
\* ========================================================================
\* The two operations that send a file of ./uploads.
FileOps == {"download", "preview"}

\* csvPath, pdfPath or :filename of a request: absent, a file of ./uploads,
\* a name without a file, and a name that path.join resolves to a directory.
ServePaths == {NoVal, "filled-1.pdf", "gone.pdf", "."}

\* What fs.pathExists and the readers find at path.join('./uploads', name).
PathKind(name) ==
  CASE name = "filled-1.pdf" -> "file"
    [] name = "." -> "directory"
    [] OTHER -> "none"

\* The text of a /parse-text body.
ServeTexts == {Undefined, EmptyText, Chars("Name: Ann"), Chars("no field")}

\* The files a /parse-csv request can name.
ServeCsvFiles ==
  {<<>>, Chars("name,zip\nAnn,1"), Chars("name,zip\nCy")}

\* The message of the error parseCSV throws for the file, "" when it resolves.
CsvFailure(content, readable) ==
  IF ~readable THEN ReadFailed
  ELSE IF HasErrors(PapaParse(content)) THEN ParseErrors ELSE ""

\* The handler of request r sends the response rep; res.json and the file
\* senders start a response only while none has been started.
Send(r, rep, failed) ==
  served' = [served EXCEPT ![r].spc = "done",
                           ![r].failed = failed,
                           ![r].sent = Append(@, rep)]

\* State after construction: the server listens, no request has arrived,
\* and process.env.DATALAB_API_KEY is set or not.
ServeInit ==
  /\ PollIdle
  /\ ExtractIdle
  /\ DataIdle
  /\ OcrIdle
  /\ PreviewIdle
  /\ AppIdle
  /\ now = 0
  /\ envKey \in {NoVal, "key"}
  /\ req = [r \in Requests |-> NoRequest]
  /\ written = [r \in Requests |-> {}]
  /\ submits = {}
  /\ pollers = {}
  /\ served = [r \in Requests |-> NoCall]
  /\ serverUp = TRUE

\* POST /parse-csv arrives: the handler runs to `await parseCSV(csvPath)`.
ParseCsvRoute(r, path) ==
  /\ serverUp
  /\ served[r].op = "none"
  /\ LET call == [NoCall EXCEPT !.op = "parse-csv", !.path = path] IN
       IF ~Truthy(path)
       THEN served' = [served EXCEPT ![r] =
                         [call EXCEPT !.spc = "done",
                                      !.sent = <<Reply(400, "CSV path is required")>>]]
       ELSE served' = [served EXCEPT ![r] = [call EXCEPT !.spc = "parsing"]]
  /\ UNCHANGED serverUp
  /\ UNCHANGED nonServeVars

\* parseCSV settles: res.json with the data and generateFieldMappings of its
\* headers, or the catch with error.message.
ParseCsvSettled(r, content, readable) ==
  /\ serverUp
  /\ served[r].op = "parse-csv"
  /\ served[r].spc = "parsing"
  /\ IF CsvFailure(content, readable) = ""
     THEN Send(r, ReplySuccess, FALSE)
     ELSE Send(r, Reply(500, CsvFailure(content, readable)), TRUE)
  /\ UNCHANGED serverUp
  /\ UNCHANGED nonServeVars

\* POST /parse-pdf arrives: the handler runs to `await parsePDF(...)`.
ParsePdfRoute(r, path) ==
  /\ serverUp
  /\ served[r].op = "none"
  /\ LET call == [NoCall EXCEPT !.op = "parse-pdf", !.path = path] IN
       IF ~Truthy(path)
       THEN served' = [served EXCEPT ![r] =
                         [call EXCEPT !.spc = "done",
                                      !.sent = <<Reply(400, "PDF path is required")>>]]
       ELSE IF ~Truthy(envKey)
       THEN served' = [served EXCEPT ![r] =
                         [call EXCEPT !.spc = "done",
                                      !.sent = <<Reply(500, "DATALAB_API_KEY not configured")>>]]
       ELSE served' = [served EXCEPT ![r] = [call EXCEPT !.spc = "parsing"]]
  /\ UNCHANGED serverUp
  /\ UNCHANGED nonServeVars

\* parsePDF settles: it returns its one row, or throws 'Failed to parse PDF'.
ParsePdfSettled(r, thrown) ==
  /\ serverUp
  /\ served[r].op = "parse-pdf"
  /\ served[r].spc = "parsing"
  /\ IF thrown
     THEN Send(r, Reply(500, ParseFailed), TRUE)
     ELSE Send(r, ReplySuccess, FALSE)
  /\ UNCHANGED serverUp
  /\ UNCHANGED nonServeVars

\* POST /parse-text: the handler has no await; parseText and
\* generateTextFieldMappings return for every string.
ParseTextRoute(r, t) ==
  /\ serverUp
  /\ served[r].op = "none"
  /\ LET call == [NoCall EXCEPT !.op = "parse-text", !.text = t, !.spc = "done"] IN
       IF ~TruthyText(t)
       THEN served' = [served EXCEPT ![r] =
                         [call EXCEPT !.sent = <<Reply(400, "Text data is required")>>]]
       ELSE served' = [served EXCEPT ![r] = [call EXCEPT !.sent = <<ReplySuccess>>]]
  /\ UNCHANGED serverUp
  /\ UNCHANGED nonServeVars

\* GET /download/:filename or /preview/:filename arrives: the handler runs
\* to `await fs.pathExists(filePath)`.
FileRoute(r, op, name) ==
  /\ serverUp
  /\ served[r].op = "none"
  /\ served' = [served EXCEPT ![r] =
                  [NoCall EXCEPT !.op = op, !.path = name, !.spc = "checking"]]
  /\ UNCHANGED serverUp
  /\ UNCHANGED nonServeVars

\* pathExists settles.  404 for no entry; else /download calls res.download
\* and /preview sets the content type, opens a read stream and pipes it to
\* the response.  The handler returns; the transfer goes on.
FileChecked(r) ==
  /\ serverUp
  /\ served[r].spc = "checking"
  /\ IF PathKind(served[r].path) = "none"
     THEN Send(r, Reply(404, "File not found"), TRUE)
     ELSE served' = [served EXCEPT ![r].spc = "sending"]
  /\ UNCHANGED serverUp
  /\ UNCHANGED nonServeVars

\* How the transfer of an entry can end: the file is sent in full; the read
\* fails before a header is out; the transfer breaks after the headers.  A
\* directory cannot be read.
TransferEndings(kind) ==
  IF kind = "directory" THEN {"unreadable"}
  ELSE {"sent", "unreadable", "broken"}

\* res.download ends and calls its callback.  With err and no header out
\* the callback answers 500; with err after the headers its
\* res.status(500).json(...) is a second response, which the response
\* object refuses by throwing out of the callback.
DownloadEnds(r, ending) ==
  /\ serverUp
  /\ served[r].op = "download"
  /\ served[r].spc = "sending"
  /\ ending \in TransferEndings(PathKind(served[r].path))
  /\ CASE ending = "sent" ->
            /\ Send(r, ReplySuccess, FALSE)
            /\ UNCHANGED serverUp
       [] ending = "unreadable" ->
            /\ Send(r, Reply(500, "Error downloading file"), TRUE)
            /\ UNCHANGED serverUp
       [] OTHER ->
            /\ served' = [served EXCEPT ![r].spc = "done",
                                        ![r].sent = Append(@, ReplySuccess),
                                        ![r].late = @ + 1]
            /\ serverUp' = FALSE
  /\ UNCHANGED nonServeVars

\* The read stream of /preview ends.  It has no 'error' listener: an error
\* of the stream is an uncaught exception of the process, and the request
\* is left without a response (or with the headers and a part of the file
\* when the error comes after the first chunk).
PreviewEnds(r, ending) ==
  /\ serverUp
  /\ served[r].op = "preview"
  /\ served[r].spc = "sending"
  /\ ending \in TransferEndings(PathKind(served[r].path))
  /\ CASE ending = "sent" ->
            /\ Send(r, ReplySuccess, FALSE)
            /\ UNCHANGED serverUp
       [] ending = "unreadable" ->
            /\ served' = [served EXCEPT ![r].spc = "done", ![r].failed = TRUE]
            /\ serverUp' = FALSE
       [] OTHER ->
            /\ served' = [served EXCEPT ![r].spc = "done",
                                        ![r].sent = Append(@, ReplySuccess),
                                        ![r].late = @ + 1]
            /\ serverUp' = FALSE
  /\ UNCHANGED nonServeVars

ServeNext ==
  \/ \E r \in Requests, path \in ServePaths : ParseCsvRoute(r, path)
  \/ \E r \in Requests, content \in ServeCsvFiles, readable \in BOOLEAN :
       ParseCsvSettled(r, content, readable)
  \/ \E r \in Requests, path \in ServePaths : ParsePdfRoute(r, path)
  \/ \E r \in Requests, thrown \in BOOLEAN : ParsePdfSettled(r, thrown)
  \/ \E r \in Requests, t \in ServeTexts : ParseTextRoute(r, t)
  \/ \E r \in Requests, op \in FileOps, name \in ServePaths \ {NoVal} :
       FileRoute(r, op, name)
  \/ \E r \in Requests : FileChecked(r)
  \/ \E r \in Requests, ending \in {"sent", "unreadable", "broken"} :
       DownloadEnds(r, ending)
  \/ \E r \in Requests, ending \in {"sent", "unreadable", "broken"} :
       PreviewEnds(r, ending)

ServeSpec == ServeInit /\ [][ServeNext]_vars

\* ---- Properties of the boundary ----

\* The requests whose handler has ended, together with the transfer it
\* started.
EndedCalls == {r \in Requests : served[r].spc = "done"}

\* A success payload, or an error object with one message.
WellFormedReply(rep) ==
  \/ rep = ReplySuccess
  \/ rep.status >= 400 /\ rep.error # ""

\* C21: every boundary operation answers each request with exactly one
\* response, which is either a success payload or an error object carrying
\* a single message; no request receives two responses, and none receives a
\* success payload after a step of it has failed.
C21_ExactlyOneResponse ==
  \A r \in EndedCalls :
    /\ Len(served[r].sent) = 1
    /\ WellFormedReply(served[r].sent[1])
    /\ served[r].failed => served[r].sent[1].status # 200

\* A preview of an entry that exists and cannot be read ends without any
\* response, and the process is gone.
C21_PreviewUnanswered ==
  \E r \in EndedCalls :
    /\ served[r].op = "preview"
    /\ PathKind(served[r].path) = "directory"
    /\ served[r].failed
    /\ served[r].sent = <<>>
    /\ ~serverUp

\* Each handler answers once where no transfer fails: a parse that threw is
\* answered with the message of the error, a download that could not start
\* with 500.
HandlersAnswerOnce ==
  \E r1, r2 \in EndedCalls :
    /\ served[r1].op = "parse-csv"
    /\ served[r1].sent = <<Reply(500, ParseErrors)>>
    /\ served[r2].op = "download"
    /\ served[r2].sent = <<Reply(500, "Error downloading file")>>

\* ========================================================================
\* CsvPreview: 'Field Mappings Preview' and the fill of the selected row
\* (components/CsvPreview.jsx, App.handleRowSelected, /fill-form)
\* ========================================================================
\* if (value)
ShowValueUntrimmed(value) == value # EmptyText

\* if (value && value.toString().trim() !== '')
ShowValue(value) == value # EmptyText /\ Trim(value) # EmptyText

\* fieldMappings[key.toLowerCase().replace(/\s+/g, '_')] || key
PdfField(mapping, key) ==
  LET found == Lookup(mapping, NormalizeKey(key))
  IN  IF TruthyText(found) THEN found ELSE key

\* Object.entries(csvData.rows[selectedRow]).map(...): one item for each
\* entry that is shown, null (no item) for the others.
RECURSIVE PreviewItems(_, _)
PreviewItems(entries, mapping) ==
  IF entries = <<>> THEN <<>>
  ELSE LET key == Head(entries).k
           value == Head(entries).v
       IN  (IF ShowValue(value)
            THEN <<[column |-> key, pdfField |-> PdfField(mapping, key),
                    value |-> value]>>
            ELSE <<>>)
           \o PreviewItems(Tail(entries), mapping)

\* A second row under the headers of r.
SecondRow(r) == [i \in 1..Len(r) |-> [k |-> r[i].k, v |-> Chars("x")]]

\* The advisory mappings App holds for the data: what a generator returned
\* for its headers, an empty one, or an edited one.
AdvisoryMappings(r) ==
  {EmptyObject, CustomTable, generateFieldMappings(Keys(r)),
   generateTextFieldMappings(Keys(r))}

\* App renders CsvPreview at step 2 with the parsed data and its mappings;
\* no row is selected.
PreviewInit ==
  /\ PollIdle
  /\ ExtractIdle
  /\ RouteIdle
  /\ DataIdle
  /\ OcrIdle
  /\ ServeIdle
  /\ AppIdle
  /\ \E r \in Rows :
       /\ csvData = [headers |-> Keys(r), rows |-> <<r, SecondRow(r)>>]
       /\ fieldMappings \in AdvisoryMappings(r)
  /\ selectedRow = <<>>
  /\ shown = <<>>
  /\ vpc = "open"
  /\ filledFrom = EmptyObject

\* handleRowSelect(index) and the render that follows it.
SelectRow(index) ==
  /\ vpc = "open"
  /\ index \in 0..(Len(csvData.rows) - 1)
  /\ selectedRow' = <<index>>
  /\ shown' = PreviewItems(csvData.rows[index + 1], fieldMappings)
  /\ UNCHANGED <<csvData, fieldMappings, vpc, filledFrom>>
  /\ UNCHANGED nonPreviewVars

\* handleSubmit with a selected row: onRowSelected(selectedRow, context) is
\* App.handleRowSelected, which sends rowIndex and fieldMappings to
\* /fill-form; the handler converts parsedData.rows[rowIndex] with
\* customMappings.
SubmitRow ==
  /\ vpc = "open"
  /\ selectedRow # <<>>
  /\ filledFrom' = convertRowToFieldData(csvData.rows[selectedRow[1] + 1],
                                         fieldMappings)
  /\ vpc' = "submitted"
  /\ UNCHANGED <<csvData, fieldMappings, selectedRow, shown>>
  /\ UNCHANGED nonPreviewVars

PreviewNext ==
  \/ \E index \in 0..1 : SelectRow(index)
  \/ SubmitRow

PreviewSpec == PreviewInit /\ [][PreviewNext]_vars

\* C29: for every row and advisory mapping, the fields and descriptions
\* shown in 'Field Mappings Preview' are exactly the keys and descriptions
\* convertRowToFieldData produces for that row when the same mapping is
\* passed as the custom mapping: the items on screen at the submit are, in
\* order, the keys of the fieldData of the fill, each with its description.
C29_PreviewShowsFieldData ==
  vpc = "submitted" =>
    /\ [i \in 1..Len(shown) |-> shown[i].column] = Keys(filledFrom)
    /\ \A i \in 1..Len(shown) :
         shown[i].pdfField = Get(filledFrom, shown[i].column).description

\* C29 happens: the submitted row has a cell that is shown under a
\* description of the mapping, a cell that is shown under its own key, and
\* a blank cell that is left out of the screen and of the fieldData.
C29_Witness ==
  /\ vpc = "submitted"
  /\ Len(csvData.rows[selectedRow[1] + 1]) > Len(shown)
  /\ Len(shown) = 1
  /\ shown[1].pdfField # shown[1].column
  /\ HasKey(fieldMappings, NormalizeKey(shown[1].column))

\* A shown cell without an entry in the mapping stands under its own key.
ShownUnderOwnKey ==
  /\ vpc = "submitted"
  /\ Len(shown) = 2
  /\ shown[2].pdfField = shown[2].column
  /\ ~HasKey(fieldMappings, NormalizeKey(shown[2].column))

\* ========================================================================
\* App: the three steps of the workflow (App.jsx)
\* ========================================================================
\* err.response?.data?.error || err.message
ErrorMessageNoFallback(serverError, message, fallback) ==
  OrElse(serverError, message)

\* err.response?.data?.error || err.message || fallback
ErrorMessage(serverError, message, fallback) ==
  OrElse(OrElse(serverError, message), fallback)

\* What a rejected request carries: the error object of the response when
\* the server answered, and the message of the Error.
Rejections ==
  { [serverError |-> NoVal, message |-> "Network Error"],
    [serverError |-> NoVal, message |-> ""],
    [serverError |-> "Invalid row index",
     message |-> "Request failed with status code 400"] }

\* uploadResult.files.dataPdf is undefined and its path is read.
PathOfUndefined ==
  [serverError |-> NoVal,
   message |-> "Cannot read properties of undefined (reading 'path')"]

\* The fields of uploadResult.files for each dataType of the /upload response.
FilesOf(kind) ==
  CASE kind = "csv" -> "pdf, csv"
    [] kind = "pdf" -> "pdf, dataPdf"
    [] OTHER -> "pdf"

\* catch and finally of a handler: setError, setLoading(false).
Fail(rejection, fallback) ==
  /\ error' = ErrorMessage(rejection.serverError, rejection.message, fallback)
  /\ loading' = FALSE
  /\ inflight' = "none"
  /\ ended' = "failed"

\* The step content is rendered: no request is running.
StepShown(n) == step = n /\ ~loading

AppInit ==
  /\ PollIdle
  /\ ExtractIdle
  /\ RouteIdle
  /\ DataIdle
  /\ OcrIdle
  /\ ServeIdle
  /\ PreviewIdle
  /\ AppIdle

\* FileUpload calls handleFilesSelected, which runs to the await of the
\* upload.
FilesSelected(m) ==
  /\ StepShown(1)
  /\ loading' = TRUE
  /\ error' = NoVal
  /\ inflight' = "upload"
  /\ inputMode' = m
  /\ UNCHANGED <<step, uploadedFiles, dataType, appCsvData, filledPdfFilename,
                 manualTextData, ended>>
  /\ UNCHANGED nonAppVars

\* The upload is answered with the dataType kind: the handler runs to the
\* await of the parse request.  In file mode an answer of kind 'text' has no
\* files.dataPdf, whose path is read.
UploadResolved(kind) ==
  /\ inflight = "upload"
  /\ inputMode = "text" => kind = "text"
  /\ uploadedFiles' = FilesOf(kind)
  /\ dataType' = kind
  /\ IF inputMode = "file" /\ kind = "text"
     THEN Fail(PathOfUndefined, "Failed to process data")
     ELSE /\ inflight' = "parse"
          /\ UNCHANGED <<loading, error, ended>>
  /\ UNCHANGED <<step, appCsvData, filledPdfFilename, manualTextData, inputMode>>
  /\ UNCHANGED nonAppVars

\* The upload is rejected (in text mode: the response is not ok).
UploadRejected(rejection) ==
  /\ inflight = "upload"
  /\ IF inputMode = "text"
     THEN Fail([serverError |-> NoVal, message |-> "Failed to upload PDF"],
               "Failed to process data")
     ELSE Fail(rejection, "Failed to process data")
  /\ UNCHANGED <<step, uploadedFiles, dataType, appCsvData, filledPdfFilename,
                 manualTextData, inputMode>>
  /\ UNCHANGED nonAppVars

\* The parse request is answered: setCsvData, setFieldMappings, setStep(2);
\* in text mode the text goes to the session storage first.
ParseResolved ==
  /\ inflight = "parse"
  /\ appCsvData' = dataType
  /\ manualTextData' = IF inputMode = "text" THEN "Name: Ann" ELSE manualTextData
  /\ step' = 2
  /\ loading' = FALSE
  /\ inflight' = "none"
  /\ ended' = "ok"
  /\ UNCHANGED <<error, uploadedFiles, dataType, filledPdfFilename, inputMode>>
  /\ UNCHANGED nonAppVars

ParseRejected(rejection) ==
  /\ inflight = "parse"
  /\ Fail(rejection, "Failed to process data")
  /\ UNCHANGED <<step, uploadedFiles, dataType, appCsvData, filledPdfFilename,
                 manualTextData, inputMode>>
  /\ UNCHANGED nonAppVars

\* CsvPreview calls handleRowSelected, which runs to the await of fillForm.
RowSelected ==
  /\ StepShown(2)
  /\ appCsvData # NoVal
  /\ loading' = TRUE
  /\ error' = NoVal
  /\ inflight' = "fill"
  /\ UNCHANGED <<step, uploadedFiles, dataType, appCsvData, filledPdfFilename,
                 manualTextData, inputMode, ended>>
  /\ UNCHANGED nonAppVars

\* fillForm is answered: setFilledPdfFilename, setFieldsFilledCount,
\* setStep(3).
FillResolved ==
  /\ inflight = "fill"
  /\ filledPdfFilename' = "filled-1.pdf"
  /\ step' = 3
  /\ loading' = FALSE
  /\ inflight' = "none"
  /\ ended' = "ok"
  /\ UNCHANGED <<error, uploadedFiles, dataType, appCsvData, manualTextData,
                 inputMode>>
  /\ UNCHANGED nonAppVars

FillRejected(rejection) ==
  /\ inflight = "fill"
  /\ Fail(rejection, "Failed to fill form")
  /\ UNCHANGED <<step, uploadedFiles, dataType, appCsvData, filledPdfFilename,
                 manualTextData, inputMode>>
  /\ UNCHANGED nonAppVars

\* handleBackToUpload, the Back button of CsvPreview.
BackToUpload ==
  /\ StepShown(2)
  /\ appCsvData # NoVal
  /\ step' = 1
  /\ error' = NoVal
  /\ UNCHANGED <<loading, uploadedFiles, dataType, appCsvData,
                 filledPdfFilename, manualTextData, inflight, inputMode, ended>>
  /\ UNCHANGED nonAppVars

\* handleStartOver, the Back button of PdfViewer.
StartOver ==
  /\ StepShown(3)
  /\ filledPdfFilename # NoVal
  /\ step' = 1
  /\ uploadedFiles' = NoVal
  /\ dataType' = "csv"
  /\ appCsvData' = NoVal
  /\ filledPdfFilename' = NoVal
  /\ error' = NoVal
  /\ manualTextData' = NoVal
  /\ UNCHANGED <<loading, inflight, inputMode, ended>>
  /\ UNCHANGED nonAppVars

AppNext ==
  \/ \E m \in {"file", "text"} : FilesSelected(m)
  \/ \E kind \in {"csv", "pdf", "text"} : UploadResolved(kind)
  \/ \E rejection \in Rejections : UploadRejected(rejection)
  \/ ParseResolved
  \/ \E rejection \in Rejections : ParseRejected(rejection)
  \/ RowSelected
  \/ FillResolved
  \/ \E rejection \in Rejections : FillRejected(rejection)
  \/ BackToUpload
  \/ StartOver

AppSpec == AppInit /\ [][AppNext]_vars

\* ---- Properties of the workflow ----

\* A handler ends in this step.
RequestEnds == inflight # "none" /\ inflight' = "none"

\* C30: after any sequence of user actions and request outcomes, step is 1,
\* 2 or 3; step 2 is entered only by a successful upload-and-parse, with the
\* parsed data set, and step 3 only by a successful fill started from step
\* 2; a failed request leaves step unchanged and sets the error message;
\* loading is true only while a request is in flight and is false again
\* after it ends, whether it succeeded or failed.
C30_Workflow ==
  /\ [](step \in {1, 2, 3})
  /\ [](loading <=> inflight # "none")
  /\ [][(step' = 2 /\ step # 2) =>
          /\ inflight = "parse" /\ RequestEnds /\ ended' = "ok"
          /\ appCsvData' # NoVal]_vars
  /\ [][(step' = 3 /\ step # 3) =>
          /\ step = 2
          /\ inflight = "fill" /\ RequestEnds /\ ended' = "ok"]_vars
  /\ [][(RequestEnds /\ ended' = "failed") =>
          step' = step /\ Truthy(error')]_vars
  /\ [][RequestEnds => ~loading']_vars

\* C30 happens: step 3 is on screen after an upload-and-parse in text mode
\* and a fill that both succeeded; no request is running and no error is
\* set.
C30_Witness ==
  /\ step = 3
  /\ ~loading
  /\ inflight = "none"
  /\ ended = "ok"
  /\ error = NoVal
  /\ dataType = "text"
  /\ appCsvData # NoVal
  /\ manualTextData # NoVal

\* A fill failed with an Error without a message: step 2 is kept and the
\* fallback message is on screen.
FillFailedAtStepTwo ==
  /\ step = 2
  /\ ~loading
  /\ ended = "failed"
  /\ error = "Failed to fill form"

====
